---------------------------- MODULE Spec2Model ----------------------------
(***************************************************************************)
(* A model of fmp, a GPG-backed password vault: the vault/account store    *)
(* (src/vault.rs, src/src/vault.rs) and the per-vault TOTP second factor   *)
(* with its two-copy "2FA required" ledger (src/totp.rs).                  *)
(*                                                                         *)
(* Text is a sequence of one-character strings, bytes are numbers 0..255.  *)
(* The OpenPGP engine is an external collaborator: an encrypted file is a  *)
(* record that remembers its plaintext, and decrypting any other content   *)
(* fails.                                                                  *)
(***************************************************************************)
EXTENDS Integers, Sequences, FiniteSets, TLC

VARIABLES
    fs,      \* the files under <data_dir>/fmp and <config_dir>/fmp
    now,     \* the system clock, seconds since the Unix epoch
    op,      \* the operation called last
    arg,     \* its arguments
    ret,     \* what it returned
    steps,   \* the file and engine steps it performed, in order
    pre,     \* what held when it was called
    hist,    \* what has been observed of each vault since its last disable
    procs,   \* the calls that run at the same time: where they are, their locals
    gui      \* the state of the graphical front end (FmpApp)

vars == <<fs, now, op, arg, ret, steps, pre, hist, procs, gui>>

(***************************************************************************)
(* Text                                                                    *)
(***************************************************************************)

\* Characters with the Unicode White_Space property that the model uses;
\* "NBSP" stands for U+00A0.
WhitespaceChars == {" ", "\t", "\n", "\r", "NBSP"}

is_whitespace(c) == c \in WhitespaceChars

RECURSIVE trim_start(_)
trim_start(s) ==
    IF s # <<>> /\ is_whitespace(Head(s)) THEN trim_start(Tail(s)) ELSE s

RECURSIVE trim_end(_)
trim_end(s) ==
    IF s # <<>> /\ is_whitespace(s[Len(s)])
    THEN trim_end(SubSeq(s, 1, Len(s) - 1))
    ELSE s

\* str::trim
trim(s) == trim_end(trim_start(s))

\* The code point order of the characters of vault names.
CharRank(c) ==
    CASE c = "\n" -> 10
      [] c = " " -> 32
      [] c = "a" -> 97
      [] c = "b" -> 98
      [] OTHER -> 126

\* s < t in the byte-wise order of str
RECURSIVE StrLess(_, _)
StrLess(s, t) ==
    IF t = <<>> THEN FALSE
    ELSE IF s = <<>> THEN TRUE
    ELSE IF Head(s) # Head(t) THEN CharRank(Head(s)) < CharRank(Head(t))
    ELSE StrLess(Tail(s), Tail(t))

\* lines.sort_unstable()
RECURSIVE SortLines(_)
SortLines(S) ==
    IF S = {} THEN <<>>
    ELSE LET m == CHOOSE x \in S : \A y \in S \ {x} : StrLess(x, y)
         IN <<m>> \o SortLines(S \ {m})

\* lines.join("\n")
RECURSIVE JoinLines(_)
JoinLines(ls) ==
    IF ls = <<>> THEN <<>>
    ELSE IF Len(ls) = 1 THEN ls[1]
    ELSE ls[1] \o <<"\n">> \o JoinLines(Tail(ls))

\* str::lines, as a sequence; cur is the line being read
RECURSIVE SplitLines(_, _)
SplitLines(text, cur) ==
    IF text = <<>> THEN (IF cur = <<>> THEN <<>> ELSE <<cur>>)
    ELSE IF Head(text) = "\n" THEN <<cur>> \o SplitLines(Tail(text), <<>>)
    ELSE SplitLines(Tail(text), Append(cur, Head(text)))

Range(f) == {f[i] : i \in DOMAIN f}

(***************************************************************************)
(* Files                                                                   *)
(***************************************************************************)

\* The vaults: "a" and "a " (the name typed with a trailing space; the
\* vault name field of the front end is used as typed).
VaultA == <<"a">>
VaultASp == <<"a", " ">>
Vaults == {VaultA, VaultASp}

Accounts == {"email", "bank"}

Mode600 == 384
Mode700 == 448
\* The mode File::create gives a new file under the usual umask 022.
DefaultFileMode == 420
\* The mode create_dir_all gives a new directory under the usual umask 022.
DefaultDirMode == 493

NoFile == [kind |-> "none", plain |-> <<>>, mode |-> 0]
\* a file that holds bytes that are no OpenPGP message (none at all after
\* File::create)
RawFile(bytes, mode) == [kind |-> "raw", plain |-> bytes, mode |-> mode]
\* a file that holds the OpenPGP encryption of `plain`
Envelope(plain, mode) == [kind |-> "pgp", plain |-> plain, mode |-> mode]

Exists(f) == f.kind # "none"

NoText == [exists |-> FALSE, text |-> <<>>]
TextFile(t) == [exists |-> TRUE, text |-> t]

\* The recipient ids: the keyring holds a key for "k" only.
KeyId == <<"k">>
Keyring == {KeyId}

\* ledger_path_config, ledger_path_data
LedgerPaths == <<"config", "data">>


(***************************************************************************)
(* The result of a call: ok or an error, the files as the call left them,  *)
(* the steps it performed and the value it returned.                       *)
(***************************************************************************)
Ok(w, st, val) == [ok |-> TRUE, w |-> w, steps |-> st, val |-> val, err |-> "none"]
Err(w, st, err) == [ok |-> FALSE, w |-> w, steps |-> st, val |-> FALSE, err |-> err]

\* File::create: a new empty file, or the existing file truncated (its
\* mode kept)
file_create(old) ==
    RawFile(<<>>, IF Exists(old) THEN old.mode ELSE DefaultFileMode)

(***************************************************************************)
(* The ledger (src/totp.rs)                                                *)
(***************************************************************************)

\* load_ledger_at: the trimmed non-empty lines of the file; the empty set
\* when the file cannot be read
load_ledger_at(w, p) ==
    IF w.ledger[p].exists
    THEN {trim(l) : l \in Range(SplitLines(w.ledger[p].text, <<>>))} \ {<<>>}
    ELSE {}

\* save_ledger_at: the names sorted, one per line; `fault` names the step
\* of the call that the environment fails
save_ledger_at(w, p, set, fault) ==
    IF fault = "ledger." \o p
    THEN Err(w, <<>>, "io")
    ELSE Ok([w EXCEPT !.ledger[p] = TextFile(JoinLines(SortLines(set)))],
            <<"ledger.save." \o p>>, TRUE)

ledger_union(w) == load_ledger_at(w, "config") \cup load_ledger_at(w, "data")

ledger_contains(w, vault) == vault \in ledger_union(w)

\* the loop of ledger_add over the paths from the i-th on
RECURSIVE ledger_add_from(_, _, _, _, _)
ledger_add_from(w, st, i, vault, fault) ==
    IF i > Len(LedgerPaths) THEN Ok(w, st, TRUE)
    ELSE LET p == LedgerPaths[i]
             r == save_ledger_at(w, p, load_ledger_at(w, p) \cup {vault}, fault)
         IN IF ~r.ok THEN Err(r.w, st, r.err)
            ELSE ledger_add_from(r.w, st \o r.steps, i + 1, vault, fault)

ledger_add(w, vault, fault) == ledger_add_from(w, <<>>, 1, vault, fault)

RECURSIVE ledger_remove_from(_, _, _, _, _)
ledger_remove_from(w, st, i, vault, fault) ==
    IF i > Len(LedgerPaths) THEN Ok(w, st, TRUE)
    ELSE LET p == LedgerPaths[i]
             r == save_ledger_at(w, p, load_ledger_at(w, p) \ {vault}, fault)
         IN IF ~r.ok THEN Err(r.w, st, r.err)
            ELSE ledger_remove_from(r.w, st \o r.steps, i + 1, vault, fault)

ledger_remove(w, vault, fault) == ledger_remove_from(w, <<>>, 1, vault, fault)

(***************************************************************************)
(* Base32 and the otpauth URI                                              *)
(***************************************************************************)
Pow2(n) == 2 ^ n

ByteBits(b) == [i \in 1..8 |-> (b \div Pow2(8 - i)) % 2]

RECURSIVE BytesBits(_)
BytesBits(bs) ==
    IF bs = <<>> THEN <<>> ELSE ByteBits(Head(bs)) \o BytesBits(Tail(bs))

Base32Alphabet == <<"A", "B", "C", "D", "E", "F", "G", "H", "I", "J", "K", "L", "M", "N", "O", "P", "Q", "R", "S", "T", "U", "V", "W", "X", "Y", "Z", "2", "3", "4", "5", "6", "7">>

\* base32::encode(Alphabet::Rfc4648 { padding: false }, bytes)
base32_encode(bs) ==
    LET bits == BytesBits(bs)
        n == Len(bits)
        bit(i) == IF i <= n THEN bits[i] ELSE 0
        quintet(g) == 16 * bit(5 * g - 4) + 8 * bit(5 * g - 3) + 4 * bit(5 * g - 2)
                      + 2 * bit(5 * g - 1) + bit(5 * g)
    IN [g \in 1..((n + 4) \div 5) |-> Base32Alphabet[1 + quintet(g)]]

\* urlencoding::encode on the characters of labels: ':' and ' ' are
\* percent-encoded, letters are kept
urlencode_char(c) ==
    CASE c = ":" -> <<"%", "3", "A">>
      [] c = " " -> <<"%", "2", "0">>
      [] OTHER -> <<c>>

RECURSIVE urlencode(_)
urlencode(s) ==
    IF s = <<>> THEN <<>> ELSE urlencode_char(Head(s)) \o urlencode(Tail(s))

Issuer == <<"F", "M", "P">>

\* the format! of enable_totp
otpauth_uri(vault_name, secret_b32) ==
    <<"o", "t", "p", "a", "u", "t", "h", ":", "/", "/", "t", "o", "t", "p", "/">>
    \o urlencode(Issuer \o <<":">> \o vault_name)
    \o <<"?", "s", "e", "c", "r", "e", "t", "=">> \o secret_b32
    \o <<"&", "i", "s", "s", "u", "e", "r", "=">> \o urlencode(Issuer)
    \o <<"&", "p", "e", "r", "i", "o", "d", "=", "3", "0", "&", "d", "i", "g", "i", "t", "s", "=", "6", "&", "a", "l", "g", "o", "r", "i", "t", "h", "m", "=", "S", "H", "A", "1">>

(***************************************************************************)
(* Enabling, disabling and requiring TOTP (src/totp.rs)                    *)
(***************************************************************************)
SecretLen == 20

\* The secrets rng().fill draws in the model: the RFC 4226 test secret
\* "12345678901234567890", the bytes 10, 17, 24, ... and 244, 233, 222, ...
Secret1 == [i \in 1..SecretLen |-> 48 + (i % 10)]
Secret2 == [i \in 1..SecretLen |-> 7 * i + 3]
Secret3 == [i \in 1..SecretLen |-> 255 - 11 * i]
SecretPool == <<Secret1, Secret2, Secret3>>

\* How many of them enable_totp draws from.
NumSecrets == 1
Secrets == {SecretPool[i] : i \in 1..NumSecrets}

\* the recipient lookup shared by the writers: the trimmed content of the
\* recipient file, resolved in the keyring
recipient_lookup(w, vault) ==
    IF ~w.recipient[vault].exists THEN [ok |-> FALSE, err |-> "io"]
    ELSE IF trim(w.recipient[vault].text) \notin Keyring
         THEN [ok |-> FALSE, err |-> "Failed to find recipient"]
         ELSE [ok |-> TRUE, err |-> "none"]

\* encrypt_and_store_secret: encrypt first, then create, chmod and write
encrypt_and_store_secret(w, vault, secret, fault) ==
    LET rk == recipient_lookup(w, vault)
        created == [w EXCEPT !.totp[vault] = file_create(w.totp[vault])]
        moded == [created EXCEPT !.totp[vault].mode = Mode600]
        written == [moded EXCEPT !.totp[vault] = Envelope(secret, @.mode)]
    IN IF ~rk.ok THEN Err(w, <<>>, rk.err)
       ELSE IF fault = "secret.encrypt" THEN Err(w, <<>>, "Failed to encrypt TOTP secret")
       ELSE IF fault = "secret.create" THEN Err(w, <<"secret.encrypt">>, "io")
       ELSE IF fault = "secret.chmod"
            THEN Err(created, <<"secret.encrypt", "secret.create">>, "io")
       ELSE IF fault = "secret.write"
            THEN Err(moded, <<"secret.encrypt", "secret.create", "secret.chmod">>, "io")
       ELSE Ok(written,
               <<"secret.encrypt", "secret.create", "secret.chmod", "secret.write">>,
               TRUE)

GateData == <<"g", "a", "t", "e">>

\* ensure_gate_exists
ensure_gate_exists(w, vault, fault) ==
    LET rk == recipient_lookup(w, vault)
        created == [w EXCEPT !.gate[vault] = file_create(w.gate[vault])]
        moded == [created EXCEPT !.gate[vault].mode = Mode600]
        written == [moded EXCEPT !.gate[vault] = Envelope(GateData, @.mode)]
    IN IF Exists(w.gate[vault]) THEN Ok(w, <<>>, TRUE)
       ELSE IF ~rk.ok THEN Err(w, <<>>, rk.err)
       ELSE IF fault = "gate.encrypt" THEN Err(w, <<>>, "Failed to encrypt gate file")
       ELSE IF fault = "gate.create" THEN Err(w, <<"gate.encrypt">>, "io")
       ELSE IF fault = "gate.chmod"
            THEN Err(created, <<"gate.encrypt", "gate.create">>, "io")
       ELSE IF fault = "gate.write"
            THEN Err(moded, <<"gate.encrypt", "gate.create", "gate.chmod">>, "io")
       ELSE Ok(written, <<"gate.encrypt", "gate.create", "gate.chmod", "gate.write">>,
               TRUE)

\* is_totp_required: the error of the self-healing ledger_add is dropped
is_totp_required(w, vault, fault) ==
    IF ledger_contains(w, vault) THEN Ok(w, <<>>, TRUE)
    ELSE IF Exists(w.totp[vault])
         THEN LET r == ledger_add(w, vault, fault) IN Ok(r.w, r.steps, TRUE)
         ELSE Ok(w, <<>>, FALSE)

\* base32_encode on the secrets of the model
Base32Of == [s \in Range(SecretPool) |-> base32_encode(s)]

\* A faulty variant of enable_totp: totp.gpg is removed again when a later
\* step fails.
enable_totp_rollback(w, vault, secret, fault) ==
    LET r1 == encrypt_and_store_secret(w, vault, secret, fault)
        r2 == ensure_gate_exists(r1.w, vault, fault)
        r3 == ledger_add(r2.w, vault, fault)
        secret_b32 == Base32Of[secret]
    IN IF ~r1.ok THEN r1
       ELSE IF ~r2.ok
            THEN Err([r2.w EXCEPT !.totp[vault] = NoFile], r1.steps \o r2.steps, r2.err)
       ELSE IF ~r3.ok
            THEN Err([r3.w EXCEPT !.totp[vault] = NoFile],
                     r1.steps \o r2.steps \o r3.steps, r3.err)
       ELSE Ok(r3.w, r1.steps \o r2.steps \o r3.steps,
               [secret_b32 |-> secret_b32, uri |-> otpauth_uri(vault, secret_b32)])

\* enable_totp
enable_totp(w, vault, secret, fault) ==
    LET r1 == encrypt_and_store_secret(w, vault, secret, fault)
        r2 == ensure_gate_exists(r1.w, vault, fault)
        r3 == ledger_add(r2.w, vault, fault)
        secret_b32 == Base32Of[secret]
    IN IF ~r1.ok THEN r1
       ELSE IF ~r2.ok THEN Err(r2.w, r1.steps \o r2.steps, r2.err)
       ELSE IF ~r3.ok THEN Err(r3.w, r1.steps \o r2.steps \o r3.steps, r3.err)
       ELSE Ok(r3.w, r1.steps \o r2.steps \o r3.steps,
               [secret_b32 |-> secret_b32, uri |-> otpauth_uri(vault, secret_b32)])

\* A faulty variant of disable_totp: the ledger is purged only when totp.gpg was
\* there to remove.
disable_totp_skip_purge(w, vault, fault) ==
    IF ~Exists(w.totp[vault]) THEN Ok(w, <<>>, TRUE)
    ELSE IF fault = "totp.remove" THEN Err(w, <<>>, "io")
    ELSE LET removed == [w EXCEPT !.totp[vault] = NoFile]
             r == ledger_remove(removed, vault, fault)
         IN IF r.ok THEN Ok(r.w, <<"totp.remove">> \o r.steps, TRUE)
            ELSE Err(r.w, <<"totp.remove">> \o r.steps, r.err)

\* disable_totp
disable_totp(w, vault, fault) ==
    LET present == Exists(w.totp[vault])
        removed == IF present THEN [w EXCEPT !.totp[vault] = NoFile] ELSE w
        st == IF present THEN <<"totp.remove">> ELSE <<>>
        r == ledger_remove(removed, vault, fault)
    IN IF present /\ fault = "totp.remove" THEN Err(w, <<>>, "io")
       ELSE IF r.ok THEN Ok(r.w, st \o r.steps, TRUE)
       ELSE Err(r.w, st \o r.steps, r.err)


(***************************************************************************)
(* HOTP and the verification of a code (src/totp.rs)                       *)
(***************************************************************************)

\* HMAC-SHA1 (the hmac and sha1 crates) is not computed here: these are its
\* values for the three secrets on the 8-byte counters the model's clock
\* reaches.
HmacTable1 ==
    <<0, 0, 0, 0, 3, 144, 55, 111>> :> <<178, 230, 78, 169, 46, 156, 205, 24, 57, 214, 182, 26, 29, 104, 147, 127, 24, 48, 48, 181>> @@
    <<0, 0, 0, 0, 3, 144, 55, 112>> :> <<239, 224, 139, 209, 194, 24, 147, 16, 199, 143, 157, 209, 125, 147, 119, 161, 50, 108, 236, 216>> @@
    <<0, 0, 0, 0, 3, 144, 55, 113>> :> <<233, 161, 178, 6, 190, 188, 39, 130, 94, 71, 86, 162, 74, 131, 12, 100, 163, 235, 56, 148>> @@
    <<0, 0, 0, 0, 3, 144, 55, 114>> :> <<5, 69, 94, 9, 190, 194, 88, 113, 41, 11, 86, 170, 233, 108, 17, 91, 92, 47, 137, 70>> @@
    <<0, 0, 0, 0, 3, 144, 55, 130>> :> <<95, 158, 96, 155, 107, 90, 188, 162, 224, 192, 39, 195, 156, 33, 189, 212, 47, 183, 29, 128>> @@
    <<0, 0, 0, 0, 3, 144, 55, 131>> :> <<182, 130, 78, 232, 158, 25, 5, 56, 224, 202, 136, 26, 125, 184, 137, 72, 57, 162, 82, 150>> @@
    <<0, 0, 0, 0, 3, 144, 55, 132>> :> <<97, 234, 10, 194, 48, 13, 207, 140, 251, 74, 50, 192, 164, 245, 12, 20, 102, 130, 209, 12>> @@
    <<0, 0, 0, 0, 3, 144, 55, 133>> :> <<10, 3, 107, 58, 89, 164, 233, 125, 190, 210, 147, 25, 56, 86, 111, 41, 118, 21, 207, 219>> @@
    <<0, 0, 0, 0, 3, 144, 55, 134>> :> <<96, 254, 158, 155, 108, 116, 130, 86, 114, 152, 9, 62, 237, 208, 3, 244, 123, 218, 17, 99>> @@
    <<0, 0, 0, 0, 3, 144, 55, 135>> :> <<127, 183, 105, 211, 40, 65, 115, 99, 253, 57, 181, 234, 128, 161, 226, 52, 35, 122, 66, 195>> @@
    <<0, 0, 0, 0, 3, 144, 55, 136>> :> <<112, 99, 68, 176, 161, 26, 118, 231, 91, 221, 98, 190, 206, 207, 81, 185, 168, 173, 34, 99>> @@
    <<0, 0, 0, 0, 3, 144, 55, 137>> :> <<209, 105, 7, 187, 67, 197, 92, 233, 246, 38, 169, 237, 156, 218, 211, 190, 146, 212, 88, 156>> @@
    <<0, 0, 0, 0, 3, 144, 55, 138>> :> <<208, 193, 201, 68, 46, 233, 162, 122, 237, 237, 32, 16, 82, 202, 146, 80, 144, 167, 8, 174>> @@
    <<0, 0, 0, 0, 3, 144, 55, 139>> :> <<63, 89, 253, 44, 152, 57, 136, 43, 166, 208, 14, 2, 230, 155, 199, 255, 161, 118, 228, 245>> @@
    <<0, 0, 0, 0, 3, 144, 55, 140>> :> <<243, 97, 44, 63, 122, 50, 104, 28, 139, 244, 118, 4, 73, 20, 211, 84, 156, 109, 141, 220>> @@
    <<0, 0, 0, 0, 3, 144, 55, 141>> :> <<94, 200, 40, 179, 25, 226, 8, 97, 122, 151, 61, 238, 106, 144, 5, 190, 44, 46, 112, 229>> @@
    <<0, 0, 0, 0, 3, 144, 55, 142>> :> <<8, 241, 71, 67, 102, 3, 170, 190, 105, 88, 162, 140, 169, 116, 121, 175, 50, 28, 101, 250>>

HmacTable2 ==
    <<0, 0, 0, 0, 3, 144, 55, 111>> :> <<63, 58, 250, 53, 143, 163, 166, 49, 178, 226, 178, 65, 188, 254, 112, 214, 75, 72, 2, 191>> @@
    <<0, 0, 0, 0, 3, 144, 55, 112>> :> <<62, 136, 123, 201, 72, 236, 61, 108, 26, 32, 72, 83, 238, 172, 228, 122, 37, 203, 237, 10>> @@
    <<0, 0, 0, 0, 3, 144, 55, 113>> :> <<159, 95, 115, 221, 232, 68, 124, 255, 95, 188, 188, 95, 232, 59, 34, 121, 44, 251, 175, 131>> @@
    <<0, 0, 0, 0, 3, 144, 55, 114>> :> <<209, 90, 103, 105, 102, 64, 3, 160, 129, 75, 105, 177, 95, 90, 50, 144, 3, 239, 203, 122>> @@
    <<0, 0, 0, 0, 3, 144, 55, 130>> :> <<26, 196, 4, 229, 82, 236, 215, 144, 91, 219, 86, 89, 70, 190, 186, 96, 96, 220, 2, 114>> @@
    <<0, 0, 0, 0, 3, 144, 55, 131>> :> <<186, 119, 178, 62, 185, 52, 73, 30, 252, 164, 55, 52, 192, 181, 214, 250, 210, 24, 216, 70>> @@
    <<0, 0, 0, 0, 3, 144, 55, 132>> :> <<194, 245, 143, 9, 248, 130, 191, 8, 207, 150, 108, 178, 46, 53, 211, 96, 192, 160, 178, 231>> @@
    <<0, 0, 0, 0, 3, 144, 55, 133>> :> <<139, 33, 140, 200, 187, 80, 222, 92, 137, 203, 9, 173, 101, 202, 75, 37, 91, 121, 160, 121>> @@
    <<0, 0, 0, 0, 3, 144, 55, 134>> :> <<32, 56, 52, 184, 9, 77, 188, 218, 185, 97, 58, 142, 109, 245, 34, 66, 32, 233, 162, 223>> @@
    <<0, 0, 0, 0, 3, 144, 55, 135>> :> <<127, 191, 7, 208, 180, 75, 30, 181, 142, 218, 105, 67, 235, 82, 61, 225, 62, 251, 45, 67>> @@
    <<0, 0, 0, 0, 3, 144, 55, 136>> :> <<120, 101, 75, 63, 122, 29, 159, 166, 143, 128, 191, 91, 219, 5, 1, 214, 164, 198, 15, 161>> @@
    <<0, 0, 0, 0, 3, 144, 55, 137>> :> <<140, 178, 139, 54, 231, 13, 92, 93, 191, 209, 105, 19, 80, 236, 66, 187, 65, 123, 94, 3>> @@
    <<0, 0, 0, 0, 3, 144, 55, 138>> :> <<255, 22, 174, 247, 148, 253, 111, 8, 53, 200, 120, 7, 254, 169, 152, 177, 234, 246, 75, 57>> @@
    <<0, 0, 0, 0, 3, 144, 55, 139>> :> <<147, 240, 203, 122, 68, 79, 14, 254, 255, 12, 157, 115, 244, 254, 129, 22, 181, 118, 234, 135>> @@
    <<0, 0, 0, 0, 3, 144, 55, 140>> :> <<184, 57, 31, 213, 159, 127, 32, 207, 68, 129, 149, 53, 154, 182, 15, 243, 27, 69, 62, 48>> @@
    <<0, 0, 0, 0, 3, 144, 55, 141>> :> <<149, 212, 170, 148, 201, 215, 132, 86, 230, 141, 15, 201, 57, 159, 120, 50, 45, 207, 251, 30>> @@
    <<0, 0, 0, 0, 3, 144, 55, 142>> :> <<72, 144, 149, 112, 27, 120, 241, 175, 31, 214, 214, 153, 138, 131, 71, 121, 230, 104, 114, 225>>

HmacTable3 ==
    <<0, 0, 0, 0, 3, 144, 55, 111>> :> <<209, 87, 232, 34, 65, 99, 66, 26, 227, 117, 165, 29, 244, 211, 194, 55, 209, 248, 13, 167>> @@
    <<0, 0, 0, 0, 3, 144, 55, 112>> :> <<88, 155, 187, 178, 26, 236, 143, 17, 192, 222, 111, 58, 91, 8, 47, 1, 238, 214, 53, 179>> @@
    <<0, 0, 0, 0, 3, 144, 55, 113>> :> <<10, 248, 187, 37, 40, 199, 141, 242, 52, 165, 251, 124, 123, 192, 8, 86, 205, 219, 189, 119>> @@
    <<0, 0, 0, 0, 3, 144, 55, 114>> :> <<79, 191, 50, 128, 121, 186, 79, 201, 22, 3, 249, 169, 111, 1, 187, 12, 47, 165, 75, 170>> @@
    <<0, 0, 0, 0, 3, 144, 55, 130>> :> <<120, 113, 102, 57, 182, 71, 203, 155, 207, 116, 8, 16, 237, 187, 27, 201, 163, 185, 207, 138>> @@
    <<0, 0, 0, 0, 3, 144, 55, 131>> :> <<144, 224, 244, 131, 177, 118, 200, 205, 178, 235, 237, 28, 167, 25, 132, 217, 218, 203, 178, 125>> @@
    <<0, 0, 0, 0, 3, 144, 55, 132>> :> <<193, 34, 204, 139, 170, 44, 81, 134, 221, 61, 245, 51, 77, 251, 184, 74, 224, 241, 103, 9>> @@
    <<0, 0, 0, 0, 3, 144, 55, 133>> :> <<219, 183, 176, 10, 30, 210, 9, 26, 219, 23, 40, 191, 33, 183, 194, 63, 82, 60, 120, 110>> @@
    <<0, 0, 0, 0, 3, 144, 55, 134>> :> <<28, 119, 154, 142, 180, 188, 191, 100, 228, 104, 162, 49, 24, 64, 131, 27, 142, 46, 60, 217>> @@
    <<0, 0, 0, 0, 3, 144, 55, 135>> :> <<29, 19, 49, 212, 9, 110, 184, 157, 115, 135, 8, 191, 193, 38, 46, 163, 20, 181, 28, 254>> @@
    <<0, 0, 0, 0, 3, 144, 55, 136>> :> <<247, 141, 247, 222, 220, 153, 5, 119, 225, 85, 64, 119, 13, 85, 250, 68, 46, 87, 229, 9>> @@
    <<0, 0, 0, 0, 3, 144, 55, 137>> :> <<230, 65, 220, 228, 39, 131, 52, 10, 4, 175, 46, 216, 209, 116, 172, 213, 140, 52, 102, 10>> @@
    <<0, 0, 0, 0, 3, 144, 55, 138>> :> <<143, 181, 31, 235, 126, 55, 58, 43, 129, 153, 93, 104, 229, 83, 215, 77, 87, 32, 122, 224>> @@
    <<0, 0, 0, 0, 3, 144, 55, 139>> :> <<187, 56, 124, 61, 170, 0, 210, 248, 165, 115, 74, 236, 248, 181, 246, 160, 54, 159, 109, 220>> @@
    <<0, 0, 0, 0, 3, 144, 55, 140>> :> <<153, 92, 243, 194, 103, 63, 15, 57, 115, 88, 61, 25, 172, 239, 127, 224, 151, 182, 59, 189>> @@
    <<0, 0, 0, 0, 3, 144, 55, 141>> :> <<129, 82, 110, 73, 103, 83, 0, 85, 133, 76, 222, 240, 121, 117, 24, 109, 193, 180, 191, 186>> @@
    <<0, 0, 0, 0, 3, 144, 55, 142>> :> <<85, 170, 181, 26, 157, 124, 146, 30, 232, 67, 133, 211, 190, 248, 55, 164, 2, 240, 43, 64>>

\* HmacSha1::new_from_slice(secret), update(msg), finalize()
HmacSha1(secret, msg) ==
    CASE secret = Secret1 -> HmacTable1[msg]
      [] secret = Secret2 -> HmacTable2[msg]
      [] secret = Secret3 -> HmacTable3[msg]

\* u64::to_be_bytes for the counters of the model, which are below 2^32
to_be_bytes(counter) ==
    <<0, 0, 0, 0,
      (counter \div 16777216) % 256, (counter \div 65536) % 256,
      (counter \div 256) % 256, counter % 256>>

\* hotp: dynamic truncation of the MAC (result[i] of the code is
\* result[i + 1] here)
hotp(secret, counter, digits) ==
    LET result == HmacSha1(secret, to_be_bytes(counter))
        offset == result[20] % 16
        bin_code == (result[offset + 1] % 128) * 16777216 + result[offset + 2] * 65536
                    + result[offset + 3] * 256 + result[offset + 4]
    IN bin_code % (10 ^ digits)

AsciiDigits == <<"0", "1", "2", "3", "4", "5", "6", "7", "8", "9">>

is_ascii_digit(c) == c \in Range(AsciiDigits)

\* The UTF-8 length of a character: "NBSP" (U+00A0) and "AR3" (U+0663,
\* ARABIC-INDIC DIGIT THREE) take two bytes.
utf8_len(c) == IF c \in {"NBSP", "AR3"} THEN 2 ELSE 1

\* str::len, in bytes
RECURSIVE str_len(_)
str_len(s) == IF s = <<>> THEN 0 ELSE utf8_len(Head(s)) + str_len(Tail(s))

RECURSIVE decimal(_)
decimal(n) ==
    IF n < 10 THEN <<AsciiDigits[n + 1]>>
    ELSE Append(decimal(n \div 10), AsciiDigits[(n % 10) + 1])

RECURSIVE zero_pad(_, _)
zero_pad(s, width) == IF Len(s) >= width THEN s ELSE zero_pad(<<"0">> \o s, width)

\* format!("{:0width$}", val, width = digits)
format_code(val, width) == zero_pad(decimal(val), width)

\* code.trim().chars().filter(|c| !c.is_whitespace()).collect()
normalize_code(code) == SelectSeq(trim(code), LAMBDA c : ~is_whitespace(c))

\* A faulty variant of code_well_formed: five digits pass.
code_well_formed_five(code) ==
    /\ str_len(code) >= 5
    /\ str_len(code) <= 8
    /\ \A i \in 1..Len(code) : is_ascii_digit(code[i])

\* the format check of verify_totp_code, negated
code_well_formed(code) ==
    /\ ~(str_len(code) < 6)
    /\ ~(str_len(code) > 8)
    /\ \A i \in 1..Len(code) : is_ascii_digit(code[i])

\* decrypt_secret: `fault` is the engine refusing (no secret key, wrong
\* passphrase)
decrypt_secret(w, vault, fault) ==
    IF ~Exists(w.totp[vault]) THEN Err(w, <<>>, "2FA is not enabled")
    ELSE IF w.totp[vault].kind # "pgp" \/ fault = "secret.decrypt"
         THEN Err(w, <<"secret.open", "secret.decrypt">>, "Failed to decrypt TOTP secret")
         ELSE Ok(w, <<"secret.open", "secret.decrypt">>, w.totp[vault].plain)

Step == 30
Digits == 6

\* A faulty variant of Skews: one more step ahead is accepted.
Skews_wide == <<-1, 0, 1, 2>>

\* for skew in [-1i64, 0, 1]
Skews == <<-1, 0, 1>>

\* A faulty variant of verify_totp_code: the candidate is compared with the
\* first digits of the code.
verify_totp_code_prefix(w, vault, code_in, t, fault) ==
    LET code == normalize_code(code_in)
        sec == decrypt_secret(w, vault, fault)
        candidate(i) == format_code(hotp(sec.val, (t \div Step) + Skews[i], Digits), Digits)
    IN IF ~code_well_formed(code) THEN Ok(w, <<>>, FALSE)
       ELSE IF ~sec.ok THEN sec
       ELSE Ok(w, sec.steps, \E i \in 1..Len(Skews) : candidate(i) = SubSeq(code, 1, Digits))

\* verify_totp_code at clock t (the counter is never negative: the clock
\* of the model is past 1970)
verify_totp_code(w, vault, code_in, t, fault) ==
    LET code == normalize_code(code_in)
        sec == decrypt_secret(w, vault, fault)
        candidate(i) == format_code(hotp(sec.val, (t \div Step) + Skews[i], Digits), Digits)
    IN IF ~code_well_formed(code) THEN Ok(w, <<>>, FALSE)
       ELSE IF ~sec.ok THEN sec
       ELSE Ok(w, sec.steps, \E i \in 1..Len(Skews) : candidate(i) = code)


(***************************************************************************)
(* The state machine of the TOTP subsystem                                 *)
(***************************************************************************)

\* 2026-11-01, on a 30-second boundary: the counter is 59783044
Epoch0 == 1793491320

\* The plaintext buffers of the store call that returned last, as they
\* were when it returned: `output` of decrypt_from_file, `data` of
\* encrypt_to_file.  No store call has run: no buffer.
NoMem == [output |-> <<>>, data |-> <<>>]

\* the world as a call finds it: the buffers of the call before are gone
NoBuffers(w) == [w EXCEPT !.mem = NoMem]

\* Zeroize::zeroize on a byte buffer: every byte is overwritten with 0
zeroize(bs) == [i \in 1..Len(bs) |-> 0]

\* Both vaults exist as initialize_vault makes them, with their recipient
\* written; nothing else does.  `mode` holds the modes of the directories
\* and of the recipient files (0: not there).
InitFs ==
    [vaultDir |-> [v \in Vaults |-> TRUE],
     recipient |-> [v \in Vaults |-> TextFile(KeyId)],
     totp |-> [v \in Vaults |-> NoFile],
     gate |-> [v \in Vaults |-> NoFile],
     acct |-> [v \in Vaults |-> {}],
     data |-> [v \in Vaults |-> [a \in Accounts |-> NoFile]],
     ledger |-> [p \in Range(LedgerPaths) |-> NoText],
     mem |-> NoMem,
     mode |-> [vault |-> [v \in Vaults |-> Mode700],
               account |-> [v \in Vaults |-> [a \in Accounts |-> 0]],
               recipient |-> [v \in Vaults |-> Mode600]]]

\* Option<Instant>: None and Some(t)
None == [some |-> FALSE, at |-> 0]
Some(t) == [some |-> TRUE, at |-> t]

\* UserPass::default
NoUserPass == [username |-> <<>>, password |-> <<>>]

\* FmpApp::default, the fields that the selection of vaults and accounts
\* and the TOTP popup read and write
NoApp ==
    [vault_name |-> <<>>,
     account_name |-> "",
     account_names |-> {},
     userpass |-> NoUserPass,
     needs_refresh_accounts |-> FALSE,
     totp_required |-> FALSE,
     show_totp_popup |-> FALSE,
     totp_code_input |-> <<>>,
     totp_verified_until |-> None]

\* the processes that call into the ledger at the same time
Procs == {1, 2}

\* a process that has made no call; set is the local `set` of ledger_add and
\* ledger_remove, seq the order in which the calls began
NoCall == [call |-> "none", vault |-> <<>>, pc |-> "idle", set |-> {}, seq |-> 0]

\* no call is running
NoProcs == [overlap |-> FALSE, of |-> [p \in Procs |-> NoCall]]

NoArg == [vault |-> <<>>, account |-> "", code |-> <<>>, user |-> <<>>, pass |-> <<>>]
NoPre == [totp |-> FALSE, led |-> FALSE, data |-> NoFile]

PreOf(v) ==
    [totp |-> Exists(fs.totp[v]), led |-> ledger_contains(fs, v), data |-> NoFile]

Init ==
    /\ fs = InitFs
    /\ now = Epoch0
    /\ op = "init"
    /\ arg = NoArg
    /\ ret = [ok |-> TRUE, val |-> FALSE, err |-> "none"]
    /\ steps = <<>>
    /\ pre = NoPre
    /\ procs = NoProcs
    /\ gui = NoApp
    /\ hist = [v \in Vaults |-> FALSE]

\* a call of `name` with arguments `a` that ended as `r`
Called(name, a, r) ==
    /\ op' = name
    /\ arg' = a
    /\ ret' = [ok |-> r.ok, val |-> r.val, err |-> r.err]
    /\ steps' = r.steps
    /\ fs' = r.w
    /\ procs' = procs
    /\ gui' = gui

\* The steps the environment may fail (an engine or an I/O error).
EnableFaults == {"none", "gate.encrypt", "ledger.config", "ledger.data"}
DisableFaults == {"none", "totp.remove", "ledger.config", "ledger.data"}
LedgerFaults == {"none", "ledger.config", "ledger.data"}
NoFaults == {"none"}
DecryptFaults == {"none", "secret.decrypt"}

EnableTotp ==
    \E v \in Vaults, secret \in Secrets, fault \in EnableFaults :
        LET r == enable_totp(fs, v, secret, fault)
        IN /\ Called("enable_totp", [NoArg EXCEPT !.vault = v], r)
           /\ pre' = PreOf(v)
           /\ hist' = IF r.ok THEN [hist EXCEPT ![v] = TRUE] ELSE hist
           /\ UNCHANGED now

DisableTotp ==
    \E v \in Vaults, fault \in DisableFaults :
        LET r == disable_totp(fs, v, fault)
        IN /\ Called("disable_totp", [NoArg EXCEPT !.vault = v], r)
           /\ pre' = PreOf(v)
           /\ hist' = [hist EXCEPT ![v] = FALSE]
           /\ UNCHANGED now

IsTotpRequired ==
    \E v \in Vaults, fault \in LedgerFaults :
        LET r == is_totp_required(fs, v, fault)
        IN /\ Called("is_totp_required", [NoArg EXCEPT !.vault = v], r)
           /\ pre' = PreOf(v)
           /\ hist' = IF r.val THEN [hist EXCEPT ![v] = TRUE] ELSE hist
           /\ UNCHANGED now

EnsureGateExists(vaults, faults) ==
    \E v \in vaults, fault \in faults :
        LET r == ensure_gate_exists(fs, v, fault)
        IN /\ Called("ensure_gate_exists", [NoArg EXCEPT !.vault = v], r)
           /\ pre' = PreOf(v)
           /\ UNCHANGED <<now, hist>>

\* The codes typed in the TOTP specification: the code of Secret1 for the
\* counter of Epoch0, and five digits.
TotpCodes == {<<"0", "3", "9", "1", "8", "8">>, <<"3", "9", "1", "8", "8">>}

VerifyTotpCode(codes, faults) ==
    \E v \in Vaults, code \in codes, fault \in faults :
        LET r == verify_totp_code(fs, v, code, now, fault)
        IN /\ Called("verify_totp_code", [NoArg EXCEPT !.vault = v, !.code = code], r)
           /\ pre' = PreOf(v)
           /\ UNCHANGED <<now, hist>>

\* Someone deletes totp.gpg, or renames it away, outside the program.
ExternalRemoveTotp ==
    \E v \in Vaults :
        /\ Exists(fs.totp[v])
        /\ fs' = [fs EXCEPT !.totp[v] = NoFile]
        /\ op' = "external_remove_totp"
        /\ arg' = [NoArg EXCEPT !.vault = v]
        /\ ret' = [ok |-> TRUE, val |-> FALSE, err |-> "none"]
        /\ steps' = <<>>
        /\ pre' = PreOf(v)
        /\ UNCHANGED <<now, hist, procs, gui>>

Next ==
    \/ EnableTotp
    \/ DisableTotp
    \/ IsTotpRequired
    \/ EnsureGateExists(Vaults, NoFaults)
    \/ VerifyTotpCode(TotpCodes, NoFaults)
    \/ ExternalRemoveTotp

Spec == Init /\ [][Next]_vars


(***************************************************************************)
(* Properties of the TOTP subsystem                                        *)
(***************************************************************************)

\* v is an entry of the ledger copy at p, as the program reads that copy
InLedgerCopy(w, p, v) == v \in load_ledger_at(w, p)

InBothCopies(w, v) == InLedgerCopy(w, "config", v) /\ InLedgerCopy(w, "data", v)
InNoCopy(w, v) == ~InLedgerCopy(w, "config", v) /\ ~InLedgerCopy(w, "data", v)

\* the first position of x in the sequence s, 0 when it is not there
IndexOf(s, x) ==
    IF \E i \in 1..Len(s) : s[i] = x
    THEN CHOOSE i \in 1..Len(s) : s[i] = x /\ \A j \in 1..(i - 1) : s[j] # x
    ELSE 0

Contains(s, sub) ==
    \E i \in 1..(Len(s) - Len(sub) + 1) : SubSeq(s, i, i + Len(sub) - 1) = sub

\* C1: once enable_totp(V) has succeeded, or is_totp_required(V) has
\* returned true, every later is_totp_required(V) returns true until
\* disable_totp(V) is called (hist[V] is exactly that "once ... until").
C1_RequirementIsSticky ==
    [][\A v \in Vaults :
           (hist[v] /\ op' = "is_totp_required" /\ arg'.vault = v) => ret'.val]_vars

\* C2: is_totp_required(V) is true exactly when V is in the union of the
\* two ledger copies or totp.gpg exists; when it is true only because of
\* the file, V is in both copies afterwards; when it is false no file has
\* changed.
C2_RequiredIffLedgerOrFile ==
    [][op' = "is_totp_required" =>
           LET v == arg'.vault
               inUnion == InLedgerCopy(fs, "config", v) \/ InLedgerCopy(fs, "data", v)
           IN /\ ret'.val = (inUnion \/ Exists(fs.totp[v]))
              /\ (ret'.val /\ ~inUnion) => InBothCopies(fs', v)
              /\ ~ret'.val => fs' = fs]_vars

\* C3: after disable_totp(V) returns Ok, totp.gpg is absent, V is in
\* neither ledger copy and is_totp_required(V) is false; both copies were
\* rewritten, also when there was no totp.gpg to remove.
C3_DisableClears ==
    (op = "disable_totp" /\ ret.ok) =>
        /\ ~Exists(fs.totp[arg.vault])
        /\ InNoCopy(fs, arg.vault)
        /\ ~is_totp_required(fs, arg.vault, "none").val
        /\ IndexOf(steps, "ledger.save.config") > 0
        /\ IndexOf(steps, "ledger.save.data") > 0

\* disable_totp succeeded on a vault that was in the ledger and had no
\* totp.gpg left
C3_Witness ==
    /\ op = "disable_totp"
    /\ ret.ok
    /\ ~pre.totp
    /\ pre.led

Base32Value(c) == IndexOf(Base32Alphabet, c) - 1

RECURSIVE QuintetBits(_)
QuintetBits(cs) ==
    IF cs = <<>> THEN <<>>
    ELSE [i \in 1..5 |-> (Base32Value(Head(cs)) \div Pow2(5 - i)) % 2]
         \o QuintetBits(Tail(cs))

\* the bytes an unpadded Base32 text stands for
Base32Decode(cs) ==
    LET bits == QuintetBits(cs)
    IN [k \in 1..(Len(bits) \div 8) |->
            bits[8 * k - 7] * 128 + bits[8 * k - 6] * 64 + bits[8 * k - 5] * 32
            + bits[8 * k - 4] * 16 + bits[8 * k - 3] * 8 + bits[8 * k - 2] * 4
            + bits[8 * k - 1] * 2 + bits[8 * k]]

\* what C4 says of a successful enable_totp, the ledger apart
EnableStoredAndReturned ==
    LET v == arg.vault
        f == fs.totp[v]
        b32 == ret.val.secret_b32
        uri == ret.val.uri
    IN /\ f.kind = "pgp"
       /\ Len(f.plain) = 20
       /\ Len(b32) = 32
       /\ \A i \in 1..Len(b32) : b32[i] \in Range(Base32Alphabet)
       /\ Base32Decode(b32) = f.plain
       /\ Exists(fs.gate[v])
       /\ IndexOf(steps, "secret.write") > 0
       /\ IndexOf(steps, "gate.write") = 0
              \/ IndexOf(steps, "secret.write") < IndexOf(steps, "gate.encrypt")
       /\ IndexOf(steps, "gate.write") < IndexOf(steps, "ledger.save.config")
       /\ IndexOf(steps, "secret.write") < IndexOf(steps, "ledger.save.config")
       /\ IndexOf(steps, "ledger.save.config") < IndexOf(steps, "ledger.save.data")
       /\ SubSeq(uri, 1, 15) = <<"o", "t", "p", "a", "u", "t", "h", ":", "/", "/", "t", "o", "t", "p", "/">>
       /\ Contains(uri, <<"?", "s", "e", "c", "r", "e", "t", "=">> \o b32 \o <<"&">>)
       /\ Contains(uri, <<"&", "i", "s", "s", "u", "e", "r", "=", "F", "M", "P", "&">>)
       /\ Contains(uri, <<"&", "p", "e", "r", "i", "o", "d", "=", "3", "0", "&">>)
       /\ Contains(uri, <<"&", "d", "i", "g", "i", "t", "s", "=", "6", "&">>)

\* C4: after enable_totp(V) returns Ok, totp.gpg holds the encryption of
\* the 20-byte secret whose 32-character Base32 text was returned, gate.gpg
\* exists, V is in both ledger copies, the steps were store, gate, ledger,
\* and the URI carries issuer=FMP, period=30, digits=6.
C4_EnableEstablishes ==
    (op = "enable_totp" /\ ret.ok) =>
        /\ EnableStoredAndReturned
        /\ InBothCopies(fs, arg.vault)

\* the part of C4 that holds of every vault
C4_ExceptLedger == (op = "enable_totp" /\ ret.ok) => EnableStoredAndReturned

\* C4 for the vault whose name has no surrounding whitespace
C4_ForTrimmedName ==
    (op = "enable_totp" /\ ret.ok /\ arg.vault = trim(arg.vault)) =>
        /\ EnableStoredAndReturned
        /\ InBothCopies(fs, arg.vault)


(***************************************************************************)
(* The state machine of code verification: the clock runs, codes are typed *)
(***************************************************************************)

\* the number of half steps the clock is followed for
MaxTicks == 4

VerifySecrets == {Secret1, Secret2}

\* The codes that are typed: codes of both secrets for the steps around
\* Epoch0 and for ten minutes before, codes with whitespace in them, and
\* texts that are no codes ("AR3" is a digit, but not an ASCII one).
VerifyCodes ==
    {<<"5", "9", "4", "3", "8", "5">>,
     <<"5", "1", "8", "2", "7", "4">>,
     <<"2", "1", "4", "9", "3", "9">>,
     <<"6", "1", "3", "6", "4", "2">>,
     <<"0", "3", "9", "1", "8", "8">>,
     <<"1", "2", "2", "5", "4", "3">>,
     <<"0", "9", "2", "5", "4", "6">>,
     <<"1", "4", "7", "1", "2", "3">>,
     <<"8", "6", "4", "4", "3", "8">>,
     <<"7", "6", "7", "5", "2", "4">>,
     <<"8", "2", "2", "1", "8", "8">>,
     <<"9", "2", "5", "4", "1", "3">>,
     <<"4", "5", "3", "2", "1", "8">>,
     <<"9", "9", "2", "9", "9", "0">>,
     <<" ", "0", "3", "9", "1", "8", "8">>,
     <<"0", "3", "9", " ", "1", "8", "8">>,
     <<"1", "2", "2", "5", "4", "3", "\n">>,
     <<"0", "9", "2", "5", "4", "6", "NBSP">>,
     <<"1", " ", "4", " ", "7", " ", "1", " ", "2", " ", "3">>,
     <<"\t", "3", "9", "1", "8", "8", " ">>,
     <<"3", "9", "1", "8", " ", "8">>,
     <<>>,
     <<"3", "9", "1", "8", "8">>,
     <<"1", "2", "3", "4", "5">>,
     <<"1", "2", "3", "4", "5", "6", "7", "8", "9">>,
     <<"0", "3", "9", "1", "8", "a">>,
     <<"0", "3", "9", "1", "8", "8", "0">>,
     <<"0", "3", "9", "1", "8", "8", "0", "0">>,
     <<"AR3", "AR3", "AR3">>,
     <<"1", "2", "3", "4", "5", "AR3">>,
     <<" ", " ", " ">>,
     <<"-", "3", "9", "1", "8", "8">>,
     <<"0", "x", "9", "1", "8", "8">>,
     <<"0", "3", "9", "1", "8", "8", "AR3">>}

\* TOTP has been enabled for VaultA, with one of the secrets; VaultASp has
\* no TOTP.
InitVerify ==
    /\ \E secret \in VerifySecrets :
           fs = enable_totp(InitFs, VaultA, secret, "none").w
    /\ now = Epoch0
    /\ op = "init"
    /\ arg = NoArg
    /\ ret = [ok |-> TRUE, val |-> FALSE, err |-> "none"]
    /\ steps = <<>>
    /\ pre = NoPre
    /\ procs = NoProcs
    /\ gui = NoApp
    /\ hist = [v \in Vaults |-> v = VaultA]

\* SystemTime::now() moves on by half a step
Tick ==
    /\ now < Epoch0 + MaxTicks * (Step \div 2)
    /\ now' = now + (Step \div 2)
    /\ op' = "tick"
    /\ arg' = NoArg
    /\ ret' = [ok |-> TRUE, val |-> FALSE, err |-> "none"]
    /\ steps' = <<>>
    /\ pre' = NoPre
    /\ UNCHANGED <<fs, hist, procs, gui>>

NextVerify ==
    \/ Tick
    \/ VerifyTotpCode(VerifyCodes, DecryptFaults)

SpecVerify == InitVerify /\ [][NextVerify]_vars

(***************************************************************************)
(* Properties of code verification                                         *)
(***************************************************************************)

\* The six-digit codes of RFC 4226 for Secret1 and Secret2, by counter,
\* computed apart from the program.
Rfc4226Codes1 ==
    59783024 :> <<"5", "9", "4", "3", "8", "5">>
    @@ 59783025 :> <<"5", "1", "8", "2", "7", "4">>
    @@ 59783026 :> <<"8", "1", "1", "0", "8", "3">>
    @@ 59783043 :> <<"6", "1", "3", "6", "4", "2">>
    @@ 59783044 :> <<"0", "3", "9", "1", "8", "8">>
    @@ 59783045 :> <<"1", "2", "2", "5", "4", "3">>
    @@ 59783046 :> <<"0", "9", "2", "5", "4", "6">>
    @@ 59783047 :> <<"1", "4", "7", "1", "2", "3">>
    @@ 59783048 :> <<"8", "6", "4", "4", "3", "8">>

Rfc4226Codes2 ==
    59783024 :> <<"4", "6", "0", "1", "4", "0">>
    @@ 59783025 :> <<"5", "0", "2", "9", "7", "2">>
    @@ 59783026 :> <<"2", "3", "1", "9", "6", "2">>
    @@ 59783043 :> <<"7", "6", "7", "5", "2", "4">>
    @@ 59783044 :> <<"8", "2", "2", "1", "8", "8">>
    @@ 59783045 :> <<"9", "2", "5", "4", "1", "3">>
    @@ 59783046 :> <<"4", "5", "3", "2", "1", "8">>
    @@ 59783047 :> <<"9", "9", "2", "9", "9", "0">>
    @@ 59783048 :> <<"4", "3", "0", "2", "6", "6">>

Rfc4226Code(secret, counter) ==
    IF secret = Secret1 THEN Rfc4226Codes1[counter] ELSE Rfc4226Codes2[counter]

RemoveWhitespace(code) == SelectSeq(code, LAMBDA c : c \notin WhitespaceChars)

\* C5: with T = floor(now / 30) and the stored secret decryptable,
\* verify_totp_code returns true exactly when the code, its whitespace
\* removed, is the six-digit code of T - 1, T or T + 1; the code of T is
\* accepted, the codes of T + 2 and of ten minutes earlier are rejected.
C5_VerifyWindow ==
    (op = "verify_totp_code" /\ pre.totp) =>
        LET T == now \div 30
            c == RemoveWhitespace(arg.code)
            secret == fs.totp[arg.vault].plain
            inWindow == \E d \in {-1, 0, 1} : c = Rfc4226Code(secret, T + d)
            decrypted == ret.err # "Failed to decrypt TOTP secret"
        IN /\ (ret.ok /\ ret.val) => inWindow
           /\ (inWindow /\ decrypted) => (ret.ok /\ ret.val)
           /\ (c = Rfc4226Code(secret, T) /\ decrypted) => (ret.ok /\ ret.val)
           /\ c = Rfc4226Code(secret, T + 2) => ~(ret.ok /\ ret.val)
           /\ c = Rfc4226Code(secret, T - 20) => ~(ret.ok /\ ret.val)

\* a code typed with whitespace in it was accepted after the clock had
\* moved to a later step
C5_Witness ==
    /\ op = "verify_totp_code"
    /\ ret.ok
    /\ ret.val
    /\ now \div 30 > Epoch0 \div 30
    /\ arg.code # RemoveWhitespace(arg.code)

\* the code of two steps ahead was typed and rejected
C5_WitnessRejected ==
    /\ op = "verify_totp_code"
    /\ pre.totp
    /\ arg.code = Rfc4226Code(fs.totp[arg.vault].plain, (now \div 30) + 2)
    /\ ret.ok
    /\ ~ret.val

Malformed(code) ==
    LET c == RemoveWhitespace(code)
    IN \/ Len(c) < 6
       \/ Len(c) > 8
       \/ \E i \in 1..Len(c) : c[i] \notin {"0", "1", "2", "3", "4", "5", "6", "7", "8", "9"}

\* C6: for an input that, its whitespace removed, has fewer than 6 or more
\* than 8 characters or a character that is no ASCII digit,
\* verify_totp_code returns Ok(false) and has neither opened nor decrypted
\* totp.gpg, whether the vault has TOTP or not.
C6_MalformedRejectedEarly ==
    (op = "verify_totp_code" /\ Malformed(arg.code)) =>
        /\ ret.ok
        /\ ret.val = FALSE
        /\ IndexOf(steps, "secret.open") = 0
        /\ IndexOf(steps, "secret.decrypt") = 0

\* five digits were typed for a vault whose totp.gpg is there
C6_Witness ==
    /\ op = "verify_totp_code"
    /\ pre.totp
    /\ Len(RemoveWhitespace(arg.code)) = 5
    /\ \A i \in 1..Len(arg.code) : arg.code[i] \in Range(AsciiDigits) \cup WhitespaceChars

\* a malformed code was typed for a vault without totp.gpg
C6_WitnessNoTotp ==
    /\ op = "verify_totp_code"
    /\ ~pre.totp
    /\ Malformed(arg.code)


(***************************************************************************)
(* The account store (src/vault.rs): the data file of an account holds     *)
(* the encryption of username ':' password.  A username is a sequence of   *)
(* code points below U+0800, a password a sequence of bytes.               *)
(***************************************************************************)

Colon == 58

\* the UTF-8 encoding of one code point
utf8_encode_char(cp) ==
    IF cp < 128 THEN <<cp>> ELSE <<192 + (cp \div 64), 128 + (cp % 64)>>

\* String::as_bytes
RECURSIVE as_bytes(_)
as_bytes(s) == IF s = <<>> THEN <<>> ELSE utf8_encode_char(Head(s)) \o as_bytes(Tail(s))

\* A faulty variant of from_utf8: a byte that is no UTF-8 stands for itself.
RECURSIVE from_utf8_lossy(_)
from_utf8_lossy(bs) ==
    IF bs = <<>> THEN [ok |-> TRUE, val |-> <<>>]
    ELSE [ok |-> TRUE, val |-> <<Head(bs)>> \o from_utf8_lossy(Tail(bs)).val]

\* String::from_utf8 for bytes below 0xE0 and for 0xFF: one-byte and
\* two-byte sequences are decoded, anything else is an error
RECURSIVE from_utf8(_)
from_utf8(bs) ==
    IF bs = <<>> THEN [ok |-> TRUE, val |-> <<>>]
    ELSE IF bs[1] < 128
         THEN LET r == from_utf8(Tail(bs))
              IN [ok |-> r.ok, val |-> IF r.ok THEN <<bs[1]>> \o r.val ELSE <<>>]
    ELSE IF bs[1] >= 194 /\ bs[1] <= 223 /\ Len(bs) >= 2 /\ bs[2] >= 128 /\ bs[2] <= 191
         THEN LET r == from_utf8(SubSeq(bs, 3, Len(bs)))
              IN [ok |-> r.ok,
                  val |-> IF r.ok THEN <<(bs[1] - 192) * 64 + (bs[2] - 128)>> \o r.val
                          ELSE <<>>]
    ELSE [ok |-> FALSE, val |-> <<>>]

\* A faulty variant of position: the last index of b in bs, 0 for none.
RECURSIVE rposition(_, _)
rposition(bs, b) ==
    IF bs = <<>> THEN 0
    ELSE IF bs[Len(bs)] = b THEN Len(bs)
    ELSE rposition(SubSeq(bs, 1, Len(bs) - 1), b)

RECURSIVE position_from(_, _, _)
position_from(bs, b, i) ==
    IF i > Len(bs) THEN 0
    ELSE IF bs[i] = b THEN i
    ELSE position_from(bs, b, i + 1)

\* output.iter().position(|&x| x == b): the first index of b in bs (from
\* 1), 0 for None
position(bs, b) == position_from(bs, b, 1)

\* create_dir_all on the directory of a vault: made with the default mode
\* when it is not there, left as it is when it is
mkdir_vault(w, vault) ==
    IF w.vaultDir[vault] THEN w
    ELSE [w EXCEPT !.vaultDir[vault] = TRUE, !.mode.vault[vault] = DefaultDirMode]

\* create_dir_all on the directory of an account: the directory of the
\* vault is made too when it is not there
mkdir_account(w, vault, account) ==
    IF account \in w.acct[vault] THEN w
    ELSE [mkdir_vault(w, vault) EXCEPT !.acct[vault] = @ \cup {account},
                                       !.mode.account[vault][account] = DefaultDirMode]

\* A faulty variant of initialize_vault: a recipient file that is there is
\* opened without being truncated.
initialize_vault_keep_recipient(w, vault, fault) ==
    LET made == mkdir_vault(w, vault)
        moded == [made EXCEPT !.mode.vault[vault] = Mode700]
        created == IF w.recipient[vault].exists THEN moded
                   ELSE [moded EXCEPT !.recipient[vault] = TextFile(<<>>),
                                      !.mode.recipient[vault] = DefaultFileMode]
        done == [created EXCEPT !.mode.recipient[vault] = Mode600]
    IN IF fault = "vault.mkdir" THEN Err(w, <<>>, "io")
       ELSE IF fault = "vault.chmod" THEN Err(made, <<"vault.mkdir">>, "io")
       ELSE IF fault = "recipient.create"
            THEN Err(moded, <<"vault.mkdir", "vault.chmod">>, "io")
       ELSE IF fault = "recipient.chmod"
            THEN Err(created, <<"vault.mkdir", "vault.chmod", "recipient.create">>, "io")
       ELSE Ok(done, <<"vault.mkdir", "vault.chmod", "recipient.create",
                       "recipient.chmod">>, TRUE)

\* Locations::initialize_vault: the directory is made and set to 0700,
\* File::create leaves the recipient file empty (its mode kept when it was
\* there) and it is set to 0600
initialize_vault(w, vault, fault) ==
    LET made == mkdir_vault(w, vault)
        moded == [made EXCEPT !.mode.vault[vault] = Mode700]
        created == [moded EXCEPT !.recipient[vault] = TextFile(<<>>),
                                 !.mode.recipient[vault] =
                                     IF w.recipient[vault].exists THEN @ ELSE DefaultFileMode]
        done == [created EXCEPT !.mode.recipient[vault] = Mode600]
    IN IF fault = "vault.mkdir" THEN Err(w, <<>>, "io")
       ELSE IF fault = "vault.chmod" THEN Err(made, <<"vault.mkdir">>, "io")
       ELSE IF fault = "recipient.create"
            THEN Err(moded, <<"vault.mkdir", "vault.chmod">>, "io")
       ELSE IF fault = "recipient.chmod"
            THEN Err(created, <<"vault.mkdir", "vault.chmod", "recipient.create">>, "io")
       ELSE Ok(done, <<"vault.mkdir", "vault.chmod", "recipient.create",
                       "recipient.chmod">>, TRUE)

\* A faulty variant of create_account_directory: the mode is left as
\* create_dir_all gave it.
create_account_directory_no_chmod(w, vault, account, fault) ==
    IF fault = "account.mkdir" THEN Err(w, <<>>, "io")
    ELSE Ok(mkdir_account(w, vault, account), <<"account.mkdir">>, TRUE)

\* A faulty variant of create_account_directory: a directory that is there
\* is emptied.
create_account_directory_anew(w, vault, account, fault) ==
    LET made == [mkdir_account(w, vault, account) EXCEPT
                     !.data[vault][account] = NoFile]
        moded == [made EXCEPT !.mode.account[vault][account] = Mode700]
    IN IF fault = "account.mkdir" THEN Err(w, <<>>, "io")
       ELSE IF fault = "account.chmod" THEN Err(made, <<"account.mkdir">>, "io")
       ELSE Ok(moded, <<"account.mkdir", "account.chmod">>, TRUE)

\* Locations::create_account_directory
create_account_directory(w, vault, account, fault) ==
    LET made == mkdir_account(w, vault, account)
        moded == [made EXCEPT !.mode.account[vault][account] = Mode700]
    IN IF fault = "account.mkdir" THEN Err(w, <<>>, "io")
       ELSE IF fault = "account.chmod" THEN Err(made, <<"account.mkdir">>, "io")
       ELSE Ok(moded, <<"account.mkdir", "account.chmod">>, TRUE)

\* A faulty variant of encrypt_to_file: the data file is created before
\* the recipient is looked up.
encrypt_to_file_create_first(w, vault, account, userpass, fault) ==
    LET data == as_bytes(userpass.username) \o <<Colon>> \o userpass.password
        rk == recipient_lookup(w, vault)
        built == [w EXCEPT !.mem = [output |-> <<>>, data |-> data]]
        created == [built EXCEPT !.data[vault][account] = file_create(@)]
        moded == [created EXCEPT !.data[vault][account].mode = Mode600]
        written == [moded EXCEPT !.data[vault][account] = Envelope(data, @.mode),
                                 !.mem.data = zeroize(data)]
    IN IF account \notin w.acct[vault] \/ fault = "data.create"
       THEN Err(built, <<>>, "io")
       ELSE IF ~rk.ok THEN Err(created, <<"data.create", "recipient.read">>, rk.err)
       ELSE IF fault = "data.chmod"
            THEN Err(created, <<"data.create", "recipient.read", "recipient.get_key">>, "io")
       ELSE IF fault = "data.encrypt"
            THEN Err(moded, <<"data.create", "recipient.read", "recipient.get_key",
                              "data.chmod">>,
                     "Failed to encrypt data")
       ELSE IF fault = "data.write"
            THEN Err(moded, <<"data.create", "recipient.read", "recipient.get_key",
                              "data.chmod", "data.encrypt">>, "io")
       ELSE Ok(written, <<"data.create", "recipient.read", "recipient.get_key",
                          "data.chmod", "data.encrypt", "data.write">>, TRUE)

\* A faulty variant of encrypt_to_file: the record is written into the
\* data file of every account of the vault.
encrypt_to_file_every_account(w, vault, account, userpass, fault) ==
    LET data == as_bytes(userpass.username) \o <<Colon>> \o userpass.password
        built == [w EXCEPT !.mem = [output |-> <<>>, data |-> data]]
        written == [built EXCEPT
                        !.data[vault] = [b \in Accounts |->
                                            IF b \in w.acct[vault]
                                            THEN Envelope(data, Mode600) ELSE @[b]],
                        !.mem.data = zeroize(data)]
    IN IF ~recipient_lookup(w, vault).ok \/ account \notin w.acct[vault]
          \/ fault # "none"
       THEN Err(built, <<"recipient.read">>, "io")
       ELSE Ok(written, <<"recipient.read", "recipient.get_key", "data.create",
                          "data.chmod", "data.encrypt", "data.write", "data.zeroize">>, TRUE)

\* A faulty variant of encrypt_to_file: a username with a ':' is refused.
encrypt_to_file_colon_refused(w, vault, account, userpass, fault) ==
    LET data == as_bytes(userpass.username) \o <<Colon>> \o userpass.password
        built == [w EXCEPT !.mem = [output |-> <<>>, data |-> data]]
        rk == recipient_lookup(w, vault)
        created == [built EXCEPT !.data[vault][account] = file_create(@)]
        moded == [created EXCEPT !.data[vault][account].mode = Mode600]
        written == [moded EXCEPT !.data[vault][account] = Envelope(data, @.mode),
                                 !.mem.data = zeroize(data)]
    IN IF position(userpass.username, Colon) > 0
       THEN Err(built, <<>>, "Username contains a colon")
       ELSE IF ~rk.ok THEN Err(built, <<"recipient.read">>, rk.err)
       ELSE IF account \notin w.acct[vault] \/ fault = "data.create"
            THEN Err(built, <<"recipient.read", "recipient.get_key">>, "io")
       ELSE IF fault = "data.chmod"
            THEN Err(created, <<"recipient.read", "recipient.get_key", "data.create">>, "io")
       ELSE IF fault \in {"data.encrypt", "data.write"}
            THEN Err(moded, <<"recipient.read", "recipient.get_key", "data.create",
                              "data.chmod">>, "io")
       ELSE Ok(written, <<"recipient.read", "recipient.get_key", "data.create",
                          "data.chmod", "data.encrypt", "data.write", "data.zeroize">>, TRUE)

\* Store::encrypt_to_file: the plaintext buffer `data` is built, the
\* recipient is read and resolved, then the data file is created
\* (truncated), its mode set, the data encrypted and written, and `data`
\* zeroized.  A failed write leaves the file without content; every `?`
\* returns with `data` as it is.
encrypt_to_file(w, vault, account, userpass, fault) ==
    LET data == as_bytes(userpass.username) \o <<Colon>> \o userpass.password
        built == [w EXCEPT !.mem = [output |-> <<>>, data |-> data]]
        rk == recipient_lookup(w, vault)
        created == [built EXCEPT !.data[vault][account] = file_create(@)]
        moded == [created EXCEPT !.data[vault][account].mode = Mode600]
        written == [moded EXCEPT !.data[vault][account] = Envelope(data, @.mode),
                                 !.mem.data = zeroize(data)]
    IN IF ~rk.ok THEN Err(built, <<"recipient.read">>, rk.err)
       ELSE IF account \notin w.acct[vault] \/ fault = "data.create"
            THEN Err(built, <<"recipient.read", "recipient.get_key">>, "io")
       ELSE IF fault = "data.chmod"
            THEN Err(created, <<"recipient.read", "recipient.get_key", "data.create">>, "io")
       ELSE IF fault = "data.encrypt"
            THEN Err(moded, <<"recipient.read", "recipient.get_key", "data.create",
                              "data.chmod">>,
                     "Failed to encrypt data")
       ELSE IF fault = "data.write"
            THEN Err(moded, <<"recipient.read", "recipient.get_key", "data.create",
                              "data.chmod", "data.encrypt">>, "io")
       ELSE Ok(written, <<"recipient.read", "recipient.get_key", "data.create",
                          "data.chmod", "data.encrypt", "data.write", "data.zeroize">>, TRUE)

\* Store::decrypt_from_file: `fault` is the engine refusing to decrypt.
\* `output` holds the plaintext once the decryption has succeeded; it is
\* zeroized before the empty-password error and before the successful
\* return, the two `?` after the decryption return with it as it is.
decrypt_from_file(w, vault, account, fault) ==
    LET f == w.data[vault][account]
        output == f.plain
        sep == position(output, Colon)
        username_bytes == SubSeq(output, 1, sep - 1)
        password_bytes == SubSeq(output, sep + 1, Len(output))
        username == from_utf8(username_bytes)
        st == <<"data.open", "data.decrypt">>
        none == NoBuffers(w)
        live == [w EXCEPT !.mem = [output |-> output, data |-> <<>>]]
        wiped == [w EXCEPT !.mem = [output |-> zeroize(output), data |-> <<>>]]
    IN IF ~Exists(f) THEN Err(none, <<>>, "io")
       ELSE IF f.kind # "pgp" \/ fault = "data.decrypt"
            THEN Err(none, st, "Failed to decrypt data")
       ELSE IF sep = 0
            THEN Err(live, st, "Decrypted data is malformed: missing separator")
       ELSE IF password_bytes = <<>>
            THEN Err(wiped, Append(st, "output.zeroize"),
                     "Decrypted data is malformed: empty password")
       ELSE IF ~username.ok THEN Err(live, st, "invalid utf-8 sequence")
       ELSE Ok(wiped, Append(st, "output.zeroize"),
               [username |-> username.val, password |-> password_bytes])

(***************************************************************************)
(* The state machine of the account store                                  *)
(***************************************************************************)

\* the length up to which every password is stored
MaxPwLen == 1

StoreVaults == {VaultA}
StoreAccounts == {"email"}

\* The usernames: "", U+00E9 and "a:b".
StoreUsernames == {<<>>, <<233>>, <<97, Colon, 98>>}

\* The bytes of passwords: ':' and a byte that no UTF-8 text holds.
PwBytes == {Colon, 255}
\* every password up to MaxPwLen, and one with a ':' inside
StorePasswords ==
    UNION {[1..n -> PwBytes] : n \in 0..MaxPwLen} \cup {<<255, Colon, 255>>}

\* What another program may leave in a data file: bytes that are no OpenPGP
\* message, or the encryption of a text the store did not build (no ':',
\* nothing after the ':', a username that is no UTF-8, a well-formed one).
ForeignFiles ==
    {RawFile(<<71>>, Mode600)}
    \cup {Envelope(p, Mode600) :
            p \in {<<>>, <<97>>, <<97, Colon>>, <<255, Colon, 112>>, <<195, Colon, 112>>,
                   <<195, 169, Colon, 112, Colon>>}}

RecipientTexts == {KeyId, <<"k", "\n">>, <<"x">>}

StoreFaults == {"none", "data.create", "data.chmod", "data.encrypt", "data.write"}
StoreDecryptFaults == {"none", "data.decrypt"}

StoreArg(v, a) == [NoArg EXCEPT !.vault = v, !.account = a]
StorePre(v, a) == [NoPre EXCEPT !.data = fs.data[v][a]]

InitializeVault(faults) ==
    \E v \in StoreVaults, fault \in faults :
        LET r == initialize_vault(NoBuffers(fs), v, fault)
        IN /\ Called("initialize_vault", [NoArg EXCEPT !.vault = v], r)
           /\ pre' = NoPre
           /\ UNCHANGED <<now, hist>>

CreateAccountDirectory(accounts, faults) ==
    \E v \in StoreVaults, a \in accounts, fault \in faults :
        LET r == create_account_directory(NoBuffers(fs), v, a, fault)
        IN /\ Called("create_account_directory", StoreArg(v, a), r)
           /\ pre' = StorePre(v, a)
           /\ UNCHANGED <<now, hist>>

EncryptToFile(accounts, usernames, passwords) ==
    \E v \in StoreVaults, a \in accounts, u \in usernames,
       p \in passwords, fault \in StoreFaults :
        LET r == encrypt_to_file(fs, v, a, [username |-> u, password |-> p], fault)
        IN /\ Called("encrypt_to_file", [StoreArg(v, a) EXCEPT !.user = u, !.pass = p], r)
           /\ pre' = StorePre(v, a)
           /\ UNCHANGED <<now, hist>>

DecryptFromFile(accounts) ==
    \E v \in StoreVaults, a \in accounts, fault \in StoreDecryptFaults :
        LET r == decrypt_from_file(fs, v, a, fault)
        IN /\ Called("decrypt_from_file", StoreArg(v, a), r)
           /\ pre' = StorePre(v, a)
           /\ UNCHANGED <<now, hist>>

External(name, a, w) ==
    /\ fs' = NoBuffers(w)
    /\ op' = name
    /\ arg' = a
    /\ ret' = [ok |-> TRUE, val |-> FALSE, err |-> "none"]
    /\ steps' = <<>>
    /\ UNCHANGED <<now, hist, procs, gui>>

\* Another program writes the data file of an account.
ExternalWriteData ==
    \E v \in StoreVaults, a \in StoreAccounts, f \in ForeignFiles :
        /\ a \in fs.acct[v]
        /\ External("external_write_data", StoreArg(v, a), [fs EXCEPT !.data[v][a] = f])
        /\ pre' = StorePre(v, a)

\* The recipient file, which is there, is written (by the front end or by
\* hand): its mode stays.
ExternalWriteRecipient ==
    \E v \in StoreVaults, t \in RecipientTexts :
        /\ fs.recipient[v].exists
        /\ External("external_write_recipient", [NoArg EXCEPT !.vault = v],
                    [fs EXCEPT !.recipient[v] = TextFile(t)])
        /\ pre' = NoPre

ExternalRemoveRecipient ==
    \E v \in StoreVaults :
        /\ fs.recipient[v].exists
        /\ External("external_remove_recipient", [NoArg EXCEPT !.vault = v],
                    [fs EXCEPT !.recipient[v] = NoText, !.mode.recipient[v] = 0])
        /\ pre' = NoPre

NextStore ==
    \/ InitializeVault(NoFaults)
    \/ CreateAccountDirectory(StoreAccounts, NoFaults)
    \/ EncryptToFile(StoreAccounts, StoreUsernames, StorePasswords)
    \/ DecryptFromFile(StoreAccounts)
    \/ ExternalWriteData
    \/ ExternalWriteRecipient
    \/ ExternalRemoveRecipient

SpecStore == Init /\ [][NextStore]_vars


(***************************************************************************)
(* Properties of the account store                                         *)
(***************************************************************************)

\* the data file the last call was about
DataFile == fs.data[arg.vault][arg.account]

\* the call before was a successful encrypt_to_file and this step is a
\* decrypt_from_file of the same account that the engine did not refuse
EncryptThenDecrypt ==
    /\ op = "encrypt_to_file"
    /\ ret.ok
    /\ op' = "decrypt_from_file"
    /\ arg'.vault = arg.vault
    /\ arg'.account = arg.account
    /\ ret'.err # "Failed to decrypt data"

SameUserPass == ret'.ok /\ ret'.val = [username |-> arg.user, password |-> arg.pass]

\* C7 as stated: for every username without ':' and every password,
\* encrypt_to_file and then decrypt_from_file gives back the same username
\* and the same password bytes.
C7_RoundTripAnyPassword ==
    [][(EncryptThenDecrypt /\ IndexOf(arg.user, Colon) = 0) => SameUserPass]_vars

\* C7, amended: for every username without ':' and every password of at
\* least one byte, encrypt_to_file and then decrypt_from_file gives back
\* the same username and the same password bytes.
C7_RoundTrip ==
    [][(EncryptThenDecrypt /\ IndexOf(arg.user, Colon) = 0 /\ arg.pass # <<>>)
           => SameUserPass]_vars

\* a non-ASCII username and a password with a ':' inside came back
C7_Witness ==
    /\ op = "decrypt_from_file"
    /\ ret.ok
    /\ ret.val.username = <<233>>
    /\ ret.val.password = <<255, Colon, 255>>

\* the code points of the texts of the model
CodePoints == {Colon, 97, 98, 112, 233}

\* bs is the UTF-8 encoding of some text
IsUtf8(bs) == \E n \in 0..Len(bs) : \E s \in [1..n -> CodePoints] : as_bytes(s) = bs

BeforeColon(bs) == SubSeq(bs, 1, IndexOf(bs, Colon) - 1)
AfterColon(bs) == SubSeq(bs, IndexOf(bs, Colon) + 1, Len(bs))

\* the cases in which C8 says decrypt_from_file fails: no data file, no
\* decryptable ciphertext, no ':' in the plaintext, nothing after it
StatedErrorCase ==
    \/ ~Exists(DataFile)
    \/ DataFile.kind = "raw"
    \/ ret.err = "Failed to decrypt data"
    \/ IndexOf(DataFile.plain, Colon) = 0
    \/ AfterColon(DataFile.plain) = <<>>

ReturnsSplit ==
    /\ ret.ok
    /\ as_bytes(ret.val.username) = BeforeColon(DataFile.plain)
    /\ ret.val.password = AfterColon(DataFile.plain)

\* C8 as stated: decrypt_from_file returns an error in the four stated
\* cases, and in every other case the bytes before the first ':' as the
\* username and all bytes after it as the password.
C8_ErrorsAsStated ==
    op = "decrypt_from_file" =>
        IF StatedErrorCase THEN ~ret.ok /\ ret.err # "panic" ELSE ReturnsSplit

\* C8, amended: decrypt_from_file returns an error in the four stated
\* cases and when the bytes before the first ':' are no UTF-8; in every
\* other case it returns them as the username and all bytes after the ':'
\* as the password.
C8_Errors ==
    op = "decrypt_from_file" =>
        IF StatedErrorCase \/ ~IsUtf8(BeforeColon(DataFile.plain))
        THEN ~ret.ok /\ ret.err # "panic"
        ELSE ReturnsSplit

\* a decryptable file with a password after the ':' and a username that is
\* no UTF-8 was read
C8_Witness ==
    /\ op = "decrypt_from_file"
    /\ DataFile.kind = "pgp"
    /\ ret.err # "Failed to decrypt data"
    /\ IndexOf(DataFile.plain, Colon) > 0
    /\ AfterColon(DataFile.plain) # <<>>
    /\ ~IsUtf8(BeforeColon(DataFile.plain))

\* a file whose password holds a further ':' was read
C8_WitnessSplit ==
    /\ op = "decrypt_from_file"
    /\ ret.ok
    /\ IndexOf(ret.val.password, Colon) > 0

\* the recipient file of v is there and its content, the surrounding
\* whitespace apart, names a key of the keyring
RecipientResolves(w, v) ==
    /\ w.recipient[v].exists
    /\ \E k \in Keyring :
           \E i \in 1..Len(w.recipient[v].text) :
               /\ SubSeq(w.recipient[v].text, i, i + Len(k) - 1) = k
               /\ \A j \in 1..Len(w.recipient[v].text) :
                      (j < i \/ j >= i + Len(k)) => w.recipient[v].text[j] \in WhitespaceChars

\* C9: when the recipient file cannot be read or does not resolve to a
\* key, encrypt_to_file returns an error and every data file is as it was:
\* none is created, an existing envelope keeps its content.
C9_RecipientFailureLeavesData ==
    [][(op' = "encrypt_to_file" /\ ~RecipientResolves(fs, arg'.vault))
           => (~ret'.ok /\ fs'.data = fs.data)]_vars

\* encrypt_to_file failed on the recipient while an envelope was there
C9_Witness ==
    /\ op = "encrypt_to_file"
    /\ ~ret.ok
    /\ ~RecipientResolves(fs, arg.vault)
    /\ pre.data.kind = "pgp"
    /\ DataFile = pre.data


(***************************************************************************)
(* The account store of the command line version (src/src/vault.rs): a     *)
(* UserPass carries its password encrypted in memory.  Its operators are   *)
(* named cli_ where the name is taken by the store above.                  *)
(***************************************************************************)

\* a password as a UserPass carries it: encrypted to the recipient, or
\* bytes that are no OpenPGP message
Sealed(bytes) == [kind |-> "pgp", plain |-> bytes]
Unsealed(bytes) == [kind |-> "raw", plain |-> bytes]

\* crypto::encrypt_variable, as vault.rs uses it and the crypto tests pin
\* it down: an error for a recipient without a key, else the encryption
encrypt_variable(data, recipient, fault) ==
    IF recipient \notin Keyring \/ fault = "variable.encrypt"
    THEN [ok |-> FALSE, val |-> Unsealed(<<>>)]
    ELSE [ok |-> TRUE, val |-> Sealed(data)]

\* crypto::decrypt_variable: the bytes back, an error for invalid data
decrypt_variable(sealed, fault) ==
    IF sealed.kind # "pgp" \/ fault = "variable.decrypt"
    THEN [ok |-> FALSE, val |-> <<>>]
    ELSE [ok |-> TRUE, val |-> sealed.plain]

\* slice::split: the pieces of bs between the bytes equal to b
RECURSIVE split(_, _, _)
split(bs, b, cur) ==
    IF bs = <<>> THEN <<cur>>
    ELSE IF Head(bs) = b THEN <<cur>> \o split(Tail(bs), b, <<>>)
    ELSE split(Tail(bs), b, Append(cur, Head(bs)))

\* cli_encrypt_to_file: the password is decrypted, the recipient read (not
\* trimmed) and resolved, then the data file is created (truncated), its
\* mode set, the data encrypted and written.
cli_encrypt_to_file(w, vault, account, userpass, fault) ==
    LET pw == decrypt_variable(userpass.password, fault)
        data == as_bytes(userpass.username) \o <<Colon>> \o pw.val
        created == [w EXCEPT !.data[vault][account] = file_create(@)]
        moded == [created EXCEPT !.data[vault][account].mode = Mode600]
        written == [moded EXCEPT !.data[vault][account] = Envelope(data, Mode600)]
    IN IF ~pw.ok THEN Err(w, <<"variable.decrypt">>, "Failed to decrypt variable")
       ELSE IF ~w.recipient[vault].exists
            THEN Err(w, <<"variable.decrypt", "recipient.read">>, "io")
       ELSE IF w.recipient[vault].text \notin Keyring
            THEN Err(w, <<"variable.decrypt", "recipient.read", "recipient.get_key">>,
                     "Failed to find recipient")
       ELSE IF account \notin w.acct[vault] \/ fault = "data.create"
            THEN Err(w, <<"variable.decrypt", "recipient.read", "recipient.get_key">>, "io")
       ELSE IF fault = "data.chmod"
            THEN Err(created, <<"variable.decrypt", "recipient.read", "recipient.get_key",
                                "data.create">>, "io")
       ELSE IF fault = "data.encrypt"
            THEN Err(moded, <<"variable.decrypt", "recipient.read", "recipient.get_key",
                              "data.create", "data.chmod">>,
                     "Failed to encrypt data")
       ELSE IF fault = "data.write"
            THEN Err(moded, <<"variable.decrypt", "recipient.read", "recipient.get_key",
                              "data.create", "data.chmod", "data.encrypt">>, "io")
       ELSE Ok(written, <<"variable.decrypt", "recipient.read", "recipient.get_key",
                          "data.create", "data.chmod", "data.encrypt", "data.write">>, TRUE)

\* cli_decrypt_from_file: the plaintext is split at every ':'; the first
\* piece is the username, the second the password; indexing the second
\* piece panics when there is no ':'
cli_decrypt_from_file(w, vault, account, fault) ==
    LET f == w.data[vault][account]
        output_split == split(f.plain, Colon, <<>>)
        username == from_utf8(output_split[1])
        encrypted_password ==
            encrypt_variable(output_split[2], w.recipient[vault].text, fault)
        st == <<"recipient.read", "data.open", "data.decrypt">>
    IN IF ~w.recipient[vault].exists THEN Err(w, <<>>, "io")
       ELSE IF ~Exists(f) THEN Err(w, <<"recipient.read">>, "io")
       ELSE IF f.kind # "pgp" \/ fault = "data.decrypt"
            THEN Err(w, st, "Failed to decrypt data")
       ELSE IF ~username.ok THEN Err(w, st, "invalid utf-8 sequence")
       ELSE IF Len(output_split) < 2 THEN Err(w, st, "panic")
       ELSE IF ~encrypted_password.ok
            THEN Err(w, Append(st, "variable.encrypt"), "Failed to encrypt variable")
       ELSE Ok(w, Append(st, "variable.encrypt"),
               [username |-> username.val, password |-> encrypted_password.val])

\* Store::change_account_username
change_account_username(w, vault, account, new_username, fault) ==
    LET d == cli_decrypt_from_file(w, vault, account, fault)
        e == cli_encrypt_to_file(w, vault, account,
                                 [username |-> new_username, password |-> d.val.password],
                                 fault)
    IN IF ~d.ok THEN d
       ELSE [e EXCEPT !.steps = d.steps \o @]

\* Store::change_account_password
change_account_password(w, vault, account, new_password, fault) ==
    LET d == cli_decrypt_from_file(w, vault, account, fault)
        e == cli_encrypt_to_file(w, vault, account,
                                 [username |-> d.val.username, password |-> new_password],
                                 fault)
    IN IF ~d.ok THEN d
       ELSE [e EXCEPT !.steps = d.steps \o @]

(***************************************************************************)
(* The state machine of the command line store                             *)
(***************************************************************************)

CliUsernames == {<<97>>, <<233>>}
CliPasswords == {Sealed(<<112>>), Sealed(<<255, Colon, 255>>), Unsealed(<<71>>)}

CliFaults ==
    {"none", "data.decrypt", "variable.encrypt", "variable.decrypt", "data.create",
     "data.chmod", "data.encrypt", "data.write"}

CliEncryptToFile ==
    \E v \in StoreVaults, a \in StoreAccounts, u \in CliUsernames, p \in CliPasswords :
        LET r == cli_encrypt_to_file(fs, v, a, [username |-> u, password |-> p], "none")
        IN /\ Called("encrypt_to_file", [StoreArg(v, a) EXCEPT !.user = u, !.pass = p.plain], r)
           /\ pre' = StorePre(v, a)
           /\ UNCHANGED <<now, hist>>

ChangeAccountUsername ==
    \E v \in StoreVaults, a \in StoreAccounts, u \in CliUsernames, fault \in CliFaults :
        LET r == change_account_username(fs, v, a, u, fault)
        IN /\ Called("change_account_username", [StoreArg(v, a) EXCEPT !.user = u], r)
           /\ pre' = StorePre(v, a)
           /\ UNCHANGED <<now, hist>>

ChangeAccountPassword ==
    \E v \in StoreVaults, a \in StoreAccounts, p \in CliPasswords, fault \in CliFaults :
        LET r == change_account_password(fs, v, a, p, fault)
        IN /\ Called("change_account_password", [StoreArg(v, a) EXCEPT !.pass = p.plain], r)
           /\ pre' = StorePre(v, a)
           /\ UNCHANGED <<now, hist>>

NextCli ==
    \/ CreateAccountDirectory(StoreAccounts, NoFaults)
    \/ CliEncryptToFile
    \/ ChangeAccountUsername
    \/ ChangeAccountPassword
    \/ ExternalWriteData
    \/ ExternalWriteRecipient
    \/ ExternalRemoveRecipient

SpecCli == Init /\ [][NextCli]_vars

(***************************************************************************)
(* Properties of the command line store                                    *)
(***************************************************************************)

ChangeFailed ==
    /\ op' \in {"change_account_username", "change_account_password"}
    /\ ~ret'.ok

\* C10: when change_account_username or change_account_password returns an
\* error, whichever step failed, the data file of the account holds what
\* it held before the call.
C10_FailedChangeKeepsData ==
    [][ChangeFailed => fs'.data[arg'.vault][arg'.account] = fs.data[arg'.vault][arg'.account]]_vars

\* what holds of the code: a change that failed before the data file was
\* created has left it as it was
C10_FailedBeforeCreateKeepsData ==
    [][(ChangeFailed /\ IndexOf(steps', "data.create") = 0)
           => fs'.data[arg'.vault][arg'.account] = fs.data[arg'.vault][arg'.account]]_vars

\* a change has failed after the data file was created, and the envelope
\* that was there is gone
C10_EnvelopeLost ==
    /\ op \in {"change_account_username", "change_account_password"}
    /\ ~ret.ok
    /\ pre.data.kind = "pgp"
    /\ DataFile.kind = "raw"
    /\ DataFile.plain = <<>>


(***************************************************************************)
(* Properties of the plaintext buffers of the account store                *)
(***************************************************************************)

AllZero(bs) == \A i \in 1..Len(bs) : bs[i] = 0

\* the last call was a decrypt_from_file whose decryption succeeded
DecryptedLast ==
    /\ op = "decrypt_from_file"
    /\ IndexOf(steps, "data.decrypt") > 0
    /\ ret.err # "Failed to decrypt data"

\* C11: on every return of decrypt_from_file after the decryption has
\* succeeded (Ok, missing separator, empty password, username no UTF-8)
\* the buffer that held the plaintext is zeroized.
C11_OutputZeroizedOnEveryReturn == DecryptedLast => AllZero(fs.mem.output)

\* what holds of the code: the buffer is zeroized on the successful return
\* and on the empty-password error
C11_OutputZeroizedOnTwoReturns ==
    (DecryptedLast /\ (ret.ok \/ ret.err = "Decrypted data is malformed: empty password"))
        => AllZero(fs.mem.output)

\* decrypt_from_file has returned an error and the plaintext, a password
\* in it, is still in the buffer
C11_PlaintextLeft ==
    /\ DecryptedLast
    /\ ~ret.ok
    /\ fs.mem.output = DataFile.plain
    /\ AfterColon(DataFile.plain) # <<>>
    /\ IndexOf(DataFile.plain, Colon) > 0

\* C12: on every return of encrypt_to_file (Ok, recipient unreadable, key
\* not found, data file not created, chmod failed, encryption failed, write
\* failed) the plaintext buffer username ':' password is zeroized.
C12_DataZeroizedOnEveryReturn == op = "encrypt_to_file" => AllZero(fs.mem.data)

\* what holds of the code: the buffer is zeroized when encrypt_to_file
\* returns Ok
C12_DataZeroizedOnOk == (op = "encrypt_to_file" /\ ret.ok) => AllZero(fs.mem.data)

\* encrypt_to_file has returned an error and username ':' password is
\* still in the buffer
C12_PlaintextLeft ==
    /\ op = "encrypt_to_file"
    /\ ~ret.ok
    /\ fs.mem.data = as_bytes(arg.user) \o <<Colon>> \o arg.pass
    /\ arg.pass # <<>>


(***************************************************************************)
(* The state machine of a vault: its directories, the files in them and    *)
(* their modes, with one account and one record to store                   *)
(***************************************************************************)

VaultFaults == {"none", "vault.mkdir", "vault.chmod", "recipient.create", "recipient.chmod"}
AccountFaults == {"none", "account.mkdir", "account.chmod"}
SecretFaults == {"none", "secret.encrypt", "secret.create", "secret.chmod", "secret.write"}
GateFaults == {"none", "gate.encrypt", "gate.create", "gate.chmod", "gate.write"}

\* The record stored: "a" with the password "p".
VaultUsernames == {<<97>>}
VaultPasswords == {<<112>>}

\* the step of enable_totp that writes totp.gpg
EncryptAndStoreSecret ==
    \E v \in StoreVaults, secret \in Secrets, fault \in SecretFaults :
        LET r == encrypt_and_store_secret(NoBuffers(fs), v, secret, fault)
        IN /\ Called("encrypt_and_store_secret", [NoArg EXCEPT !.vault = v], r)
           /\ pre' = PreOf(v)
           /\ UNCHANGED <<now, hist>>

NextVault ==
    \/ InitializeVault(VaultFaults)
    \/ CreateAccountDirectory(StoreAccounts, AccountFaults)
    \/ EncryptToFile(StoreAccounts, VaultUsernames, VaultPasswords)
    \/ EncryptAndStoreSecret
    \/ EnsureGateExists(StoreVaults, GateFaults)
    \/ ExternalWriteRecipient

SpecVault == Init /\ [][NextVault]_vars

(***************************************************************************)
(* Properties of the modes                                                 *)
(***************************************************************************)

\* the file holds ciphertext and its mode is not 0600
CiphertextNot0600(f) == f.kind = "pgp" /\ f.mode # 384

\* the last call wrote ciphertext and did not set the mode between
\* creating the file and writing it
WroteBeforeChmod(file) ==
    /\ IndexOf(steps, file \o ".write") > 0
    /\ ~(/\ IndexOf(steps, file \o ".create") > 0
         /\ IndexOf(steps, file \o ".create") < IndexOf(steps, file \o ".chmod")
         /\ IndexOf(steps, file \o ".chmod") < IndexOf(steps, file \o ".write"))

C13_WitnessDirectory ==
    /\ op = "create_account_directory"
    /\ ret.ok
    /\ Exists(DataFile)
    /\ Exists(pre.data)
    /\ fs.mode.account[arg.vault][arg.account] = 448

\* C14: create_account_directory and initialize_vault are idempotent.  A
\* call without an I/O error returns Ok whether or not the directory is
\* there; after a call that returned Ok the directory exists and a second
\* call returns Ok and leaves every file, directory and mode as the first
\* call left them; create_account_directory leaves the data file of an
\* account that was there as it was.
C14_Idempotent ==
    [][/\ \A v \in StoreVaults :
              /\ initialize_vault(NoBuffers(fs), v, "none").ok
              /\ \A a \in Accounts :
                     create_account_directory(NoBuffers(fs), v, a, "none").ok
       /\ (op' = "create_account_directory" /\ ret'.ok) =>
              LET v == arg'.vault
                  a == arg'.account
                  again == create_account_directory(fs', v, a, "none")
              IN /\ a \in fs'.acct[v]
                 /\ again.ok
                 /\ again.w = fs'
                 /\ a \in fs.acct[v] => fs'.data[v][a] = fs.data[v][a]
       /\ (op' = "initialize_vault" /\ ret'.ok) =>
              LET v == arg'.vault
                  again == initialize_vault(fs', v, "none")
              IN /\ fs'.vaultDir[v]
                 /\ again.ok
                 /\ again.w = fs'
      ]_vars

\* create_account_directory has returned Ok for an account that holds a
\* record, and the record is as it was
C14_Witness ==
    /\ op = "create_account_directory"
    /\ ret.ok
    /\ pre.data.kind = "pgp"
    /\ DataFile = pre.data

\* initialize_vault has returned Ok for a vault that holds an account
C14_WitnessVault ==
    /\ op = "initialize_vault"
    /\ ret.ok
    /\ fs.acct[arg.vault] # {}

(***************************************************************************)
(* The accounts of a vault: two accounts, two records, and the calls that  *)
(* make, rename, remove and list directories                               *)
(***************************************************************************)

\* rename_directory on the directories of two accounts of a vault: the old
\* one must exist; rename(2) replaces an empty directory and fails on one
\* that holds a file
rename_directory(w, vault, old, new, fault) ==
    LET moved == [w EXCEPT !.acct[vault] = (@ \ {old}) \cup {new},
                           !.data[vault][new] = w.data[vault][old],
                           !.data[vault][old] = NoFile,
                           !.mode.account[vault][new] = w.mode.account[vault][old],
                           !.mode.account[vault][old] = 0]
    IN IF old \notin w.acct[vault]
       THEN Err(w, <<"old.exists">>, "The directory does not exist.")
       ELSE IF fault = "rename" THEN Err(w, <<"old.exists">>, "io")
       ELSE IF old = new THEN Ok(w, <<"old.exists", "rename">>, TRUE)
       ELSE IF new \in w.acct[vault] /\ Exists(w.data[vault][new])
            THEN Err(w, <<"old.exists">>, "io")
       ELSE Ok(moved, <<"old.exists", "rename">>, TRUE)

\* remove_dir_all on the directory of an account
remove_account(w, vault, account) ==
    IF account \notin w.acct[vault] THEN Err(w, <<>>, "io")
    ELSE Ok([w EXCEPT !.acct[vault] = @ \ {account},
                      !.data[vault][account] = NoFile,
                      !.mode.account[vault][account] = 0],
            <<"remove_dir_all">>, TRUE)

\* remove_dir_all on the directory of a vault
remove_vault(w, vault) ==
    IF ~w.vaultDir[vault] THEN Err(w, <<>>, "io")
    ELSE Ok([w EXCEPT !.vaultDir[vault] = FALSE,
                      !.mode.vault[vault] = 0,
                      !.acct[vault] = {},
                      !.data[vault] = [a \in Accounts |-> NoFile],
                      !.mode.account[vault] = [a \in Accounts |-> 0],
                      !.recipient[vault] = NoText,
                      !.mode.recipient[vault] = 0,
                      !.totp[vault] = NoFile,
                      !.gate[vault] = NoFile],
            <<"remove_dir_all">>, TRUE)

\* read_dir: the entries of the directory of a vault, the directories of
\* its accounts and its regular files
read_dir(w, vault) ==
    {[file_name |-> a, is_dir |-> TRUE] : a \in w.acct[vault]}
    \cup (IF w.recipient[vault].exists
          THEN {[file_name |-> "recipient", is_dir |-> FALSE]} ELSE {})
    \cup (IF Exists(w.totp[vault])
          THEN {[file_name |-> "totp.gpg", is_dir |-> FALSE]} ELSE {})
    \cup (IF Exists(w.gate[vault])
          THEN {[file_name |-> "gate.gpg", is_dir |-> FALSE]} ELSE {})

\* the orders in which read_dir may yield the entries: every one
ReadDirOrders(w, vault) ==
    LET entries == read_dir(w, vault)
    IN {order \in [1..Cardinality(entries) -> entries] :
            \A i, j \in 1..Cardinality(entries) : order[i] = order[j] => i = j}

IsDir(entry) == entry.is_dir

FileNames(order) == [i \in 1..Len(order) |-> order[i].file_name]

\* A faulty variant of read_directory: every entry is returned.
read_directory_every_entry(w, vault, order) ==
    IF ~w.vaultDir[vault] THEN Err(w, <<>>, "io")
    ELSE Ok(w, <<"read_dir">>, FileNames(order))

\* read_directory: the file names of the entries that are directories, in
\* the order read_dir yields them
read_directory(w, vault, order) ==
    IF ~w.vaultDir[vault] THEN Err(w, <<>>, "io")
    ELSE Ok(w, <<"read_dir">>, FileNames(SelectSeq(order, IsDir)))

\* The records stored: "a" with the password "p" or "q".
AccountPasswords == {<<112>>, <<113>>}

RenameFaults == {"none", "rename"}

RenameDirectory ==
    \E v \in StoreVaults, old \in Accounts, new \in Accounts, fault \in RenameFaults :
        LET r == rename_directory(NoBuffers(fs), v, old, new, fault)
        IN /\ Called("rename_directory",
                     [vault |-> v, account |-> old, new |-> new], r)
           /\ pre' = NoPre
           /\ UNCHANGED <<now, hist>>

RemoveAccount ==
    \E v \in StoreVaults, a \in Accounts :
        LET r == remove_account(NoBuffers(fs), v, a)
        IN /\ Called("remove_account", StoreArg(v, a), r)
           /\ pre' = NoPre
           /\ UNCHANGED <<now, hist>>

RemoveVault ==
    \E v \in StoreVaults :
        LET r == remove_vault(NoBuffers(fs), v)
        IN /\ Called("remove_vault", [NoArg EXCEPT !.vault = v], r)
           /\ pre' = NoPre
           /\ UNCHANGED <<now, hist>>

ReadDirectory ==
    \E v \in StoreVaults :
        \E order \in (IF fs.vaultDir[v] THEN ReadDirOrders(fs, v) ELSE {<<>>}) :
            LET r == read_directory(NoBuffers(fs), v, order)
            IN /\ Called("read_directory", [NoArg EXCEPT !.vault = v], r)
               /\ pre' = NoPre
               /\ UNCHANGED <<now, hist>>

NextAccounts ==
    \/ InitializeVault(NoFaults)
    \/ CreateAccountDirectory(Accounts, NoFaults)
    \/ EncryptToFile(Accounts, VaultUsernames, AccountPasswords)
    \/ DecryptFromFile(Accounts)
    \/ EnsureGateExists(StoreVaults, NoFaults)
    \/ RenameDirectory
    \/ RemoveAccount
    \/ RemoveVault
    \/ ReadDirectory
    \/ ExternalWriteRecipient

SpecAccounts == Init /\ [][NextAccounts]_vars

SameResult(r1, r2) == r1.ok = r2.ok /\ r1.val = r2.val /\ r1.err = r2.err

\* C15: encrypt_to_file on an account of a vault changes the data file of
\* that account and nothing else on disk: the data files of the other
\* accounts, the recipient file, totp.gpg, gate.gpg, the ledgers and the
\* directories are as before, and decrypt_from_file on another account
\* returns after the call what it returned before it.
C15_WritesOneDataFile ==
    [][op' = "encrypt_to_file" =>
           LET v == arg'.vault
               a == arg'.account
           IN /\ fs' = [fs EXCEPT !.data[v][a] = fs'.data[v][a],
                                  !.mem = fs'.mem]
              /\ \A b \in Accounts \ {a} :
                     SameResult(decrypt_from_file(fs', v, b, "none"),
                                decrypt_from_file(fs, v, b, "none"))
      ]_vars

\* encrypt_to_file has written a record into one account while the other
\* account and the gate file hold something else
C15_Witness ==
    /\ op = "encrypt_to_file"
    /\ ret.ok
    /\ DataFile # pre.data
    /\ Exists(fs.gate[arg.vault])
    /\ \E b \in Accounts \ {arg.account} :
           /\ fs.data[arg.vault][b].kind = "pgp"
           /\ fs.data[arg.vault][b].plain # DataFile.plain

\* decrypt_from_file returns the record "a:p" of one account while the
\* other account holds "a:q"
C15_WitnessDecrypt ==
    /\ op = "decrypt_from_file"
    /\ ret.ok
    /\ DataFile.plain = <<97, Colon, 112>>
    /\ \E b \in Accounts \ {arg.account} :
           /\ fs.data[arg.vault][b].kind = "pgp"
           /\ fs.data[arg.vault][b].plain = <<97, Colon, 113>>

C16_WitnessFresh ==
    /\ op = "initialize_vault"
    /\ ret.ok
    /\ fs.acct[arg.vault] = {}
    /\ fs.recipient[arg.vault].text = <<>>
    /\ ~Exists(fs.gate[arg.vault])

(***************************************************************************)
(* The password generator (src/src/password.rs)                            *)
(***************************************************************************)

\* The strings pushed to the pool for the six selections, as code points:
\* lower case, upper case, digits, symbols, the space, accented letters.
SelectionPools ==
    <<
     <<97, 98, 99, 100, 101, 102, 103, 104, 105, 106, 107, 108, 109, 110,
       111, 112, 113, 114, 115, 116, 117, 118, 119, 120, 121, 122>>,
     <<65, 66, 67, 68, 69, 70, 71, 72, 73, 74, 75, 76, 77, 78, 79, 80, 81,
       82, 83, 84, 85, 86, 87, 88, 89, 90>>,
     <<48, 49, 50, 51, 52, 53, 54, 55, 56, 57>>,
     <<33, 34, 35, 37, 38, 39, 40, 41, 42, 43, 44, 45, 46, 47, 58, 59, 60,
       61, 62, 63, 64, 91, 92, 93, 94, 95, 96, 123, 124, 125, 45>>,
     <<32>>,
     <<225, 193, 224, 192, 226, 194, 228, 196, 227, 195, 229, 197, 230,
       198, 231, 199, 233, 201, 232, 200, 234, 202, 235, 203, 237, 205,
       236, 204, 238, 206, 239, 207, 241, 209, 243, 211, 242, 210, 244,
       212, 246, 214, 245, 213, 248, 216, 339, 338, 223, 250, 218, 249,
       217, 251, 219, 252, 220>>
    >>

\* str::chars().collect() into a HashSet<char>
chars(str) == Range(str)

\* the pool string of the selections from the i-th on
RECURSIVE push_selected(_, _)
push_selected(selections, i) ==
    IF i > Len(SelectionPools) THEN <<>>
    ELSE (IF selections[i] THEN SelectionPools[i] ELSE <<>>)
         \o push_selected(selections, i + 1)

\* A faulty variant of password_pool: the characters to ignore are removed
\* after the characters to consider were inserted.
password_pool_exclude_last(app) ==
    (chars(push_selected(app.selections, 1)) \cup chars(app.consider_characters))
    \ chars(app.ignore_characters)

\* the pool of generate_password: the characters of the selected strings,
\* then every character to ignore removed, then every character to
\* consider inserted
password_pool(app) ==
    LET base == chars(push_selected(app.selections, 1))
        include == chars(app.consider_characters)
        exclude == chars(app.ignore_characters)
    IN (base \ exclude) \cup include

\* A faulty variant of generate_password: with an empty pool the password
\* is replaced by the empty one.
generate_password_clears(app, picks) ==
    [app EXCEPT !.generated_password = as_bytes(picks)]

\* generate_password; picks are the characters that choose(&mut rng())
\* yields, one for each of the password_length positions
generate_password(app, picks) ==
    IF password_pool(app) # {}
    THEN [app EXCEPT !.generated_password = as_bytes(picks)]
    ELSE app

\* the greatest password_length tried
MaxLength == 2
\* the greatest pool with which every password_length is tried; with a
\* greater pool, 0 and 1
SmallPool == 12

\* "x" and "xé" to consider, "x " to ignore
ConsiderTexts == {<<>>, <<120>>, <<120, 233>>}
IgnoreTexts == {<<>>, <<120, 32>>}

\* The states of the application the generator is called in.
Apps ==
    {app \in [selections : [1..6 -> BOOLEAN],
              consider_characters : ConsiderTexts,
              ignore_characters : IgnoreTexts,
              password_length : 0..MaxLength,
              generated_password : {<<111, 108, 100>>},
              vault_name : {VaultA}] :
         app.password_length <= 1 \/ Cardinality(password_pool(app)) <= SmallPool}

\* what the random number generator may yield for the positions
Picks(app) ==
    IF password_pool(app) = {} THEN {<<>>}
    ELSE [1..app.password_length -> password_pool(app)]

InitGenerate ==
    /\ fs = InitFs
    /\ now = Epoch0
    /\ op = "init"
    /\ arg \in Apps
    /\ ret = [ok |-> TRUE, val |-> FALSE, err |-> "none"]
    /\ steps = <<>>
    /\ pre = NoPre
    /\ procs = NoProcs
    /\ gui = NoApp
    /\ hist = [v \in Vaults |-> FALSE]

\* generate_password(&mut app): arg is the application before the call,
\* ret.val the application after it
GeneratePassword ==
    /\ op = "init"
    /\ \E picks \in Picks(arg) :
           ret' = [ok |-> TRUE, val |-> generate_password(arg, picks), err |-> "none"]
    /\ op' = "generate_password"
    /\ UNCHANGED <<fs, now, arg, steps, pre, hist, procs, gui>>

NextGenerate == GeneratePassword

SpecGenerate == InitGenerate /\ [][NextGenerate]_vars

\* the pool as the specification states it
StatedPool(app) ==
    LET classes == UNION {chars(SelectionPools[i]) : i \in {j \in 1..6 : app.selections[j]}}
    IN (classes \ chars(app.ignore_characters)) \cup chars(app.consider_characters)

C18_EmptyPoolNoPassword ==
    (op = "generate_password" /\ StatedPool(arg) = {}) => ret.val = arg

\* generate_password has been called with the space selected alone and to
\* be ignored, and a password asked for
C18_Witness ==
    /\ op = "generate_password"
    /\ arg.selections[5]
    /\ arg.password_length > 0
    /\ StatedPool(arg) = {}
    /\ ret.val.generated_password = <<111, 108, 100>>

(***************************************************************************)
(* The password rating (src/src/password.rs)                               *)
(***************************************************************************)

\* The word lists of the source, as code points.
COMMON_KEYBOARD_ROWS ==
    <<<<49, 50, 51, 52, 53, 54, 55, 56, 57, 48>>,  \* 1234567890
      <<113, 119, 101, 114, 116, 121, 117, 105, 111, 112>>,  \* qwertyuiop
      <<97, 115, 100, 102, 103, 104, 106, 107, 108>>,  \* asdfghjkl
      <<122, 120, 99, 118, 98, 110, 109>>   \* zxcvbnm
    >>

\* months and weekdays
COMMON_MONTHS_DAYS ==
    <<<<106, 97, 110>>,  \* jan
      <<106, 97, 110, 117, 97, 114, 121>>,  \* january
      <<102, 101, 98>>,  \* feb
      <<102, 101, 98, 114, 117, 97, 114, 121>>,  \* february
      <<109, 97, 114>>,  \* mar
      <<109, 97, 114, 99, 104>>,  \* march
      <<97, 112, 114>>,  \* apr
      <<97, 112, 114, 105, 108>>,  \* april
      <<109, 97, 121>>,  \* may
      <<106, 117, 110>>,  \* jun
      <<106, 117, 110, 101>>,  \* june
      <<106, 117, 108>>,  \* jul
      <<106, 117, 108, 121>>,  \* july
      <<97, 117, 103>>,  \* aug
      <<97, 117, 103, 117, 115, 116>>,  \* august
      <<115, 101, 112>>,  \* sep
      <<115, 101, 112, 116>>,  \* sept
      <<115, 101, 112, 116, 101, 109, 98, 101, 114>>,  \* september
      <<111, 99, 116>>,  \* oct
      <<111, 99, 116, 111, 98, 101, 114>>,  \* october
      <<110, 111, 118>>,  \* nov
      <<110, 111, 118, 101, 109, 98, 101, 114>>,  \* november
      <<100, 101, 99>>,  \* dec
      <<100, 101, 99, 101, 109, 98, 101, 114>>,  \* december
      <<109, 111, 110>>,  \* mon
      <<109, 111, 110, 100, 97, 121>>,  \* monday
      <<116, 117, 101>>,  \* tue
      <<116, 117, 101, 115>>,  \* tues
      <<116, 117, 101, 115, 100, 97, 121>>,  \* tuesday
      <<119, 101, 100>>,  \* wed
      <<119, 101, 100, 115>>,  \* weds
      <<119, 101, 100, 110, 101, 115, 100, 97, 121>>,  \* wednesday
      <<116, 104, 117>>,  \* thu
      <<116, 104, 117, 114>>,  \* thur
      <<116, 104, 117, 114, 115>>,  \* thurs
      <<116, 104, 117, 114, 115, 100, 97, 121>>,  \* thursday
      <<102, 114, 105>>,  \* fri
      <<102, 114, 105, 100, 97, 121>>,  \* friday
      <<115, 97, 116>>,  \* sat
      <<115, 97, 116, 117, 114, 100, 97, 121>>,  \* saturday
      <<115, 117, 110>>,  \* sun
      <<115, 117, 110, 100, 97, 121>>   \* sunday
    >>

\* the common passwords
COMMON_PASSWORDS ==
    <<<<49, 50, 51, 52, 53, 54>>,  \* 123456
      <<112, 97, 115, 115, 119, 111, 114, 100>>,  \* password
      <<49, 50, 51, 52, 53, 54, 55, 56, 57>>,  \* 123456789
      <<49, 50, 51, 52, 53>>,  \* 12345
      <<49, 50, 51, 52, 53, 54, 55, 56>>,  \* 12345678
      <<113, 119, 101, 114, 116, 121>>,  \* qwerty
      <<49, 50, 51, 52, 53, 54, 55>>,  \* 1234567
      <<49, 49, 49, 49, 49, 49>>,  \* 111111
      <<49, 50, 51, 49, 50, 51>>,  \* 123123
      <<97, 98, 99, 49, 50, 51>>,  \* abc123
      <<112, 97, 115, 115, 119, 111, 114, 100, 49>>,  \* password1
      <<49, 50, 51, 52>>,  \* 1234
      <<105, 108, 111, 118, 101, 121, 111, 117>>,  \* iloveyou
      <<49, 113, 50, 119, 51, 101, 52, 114>>,  \* 1q2w3e4r
      <<48, 48, 48, 48, 48, 48>>,  \* 000000
      <<113, 119, 101, 114, 116, 121, 117, 105, 111, 112>>,  \* qwertyuiop
      <<109, 111, 110, 107, 101, 121>>,  \* monkey
      <<100, 114, 97, 103, 111, 110>>,  \* dragon
      <<108, 101, 116, 109, 101, 105, 110>>,  \* letmein
      <<54, 57, 54, 57, 54, 57>>,  \* 696969
      <<115, 104, 97, 100, 111, 119>>,  \* shadow
      <<109, 97, 115, 116, 101, 114>>,  \* master
      <<54, 54, 54, 54, 54, 54>>,  \* 666666
      <<113, 119, 101, 114, 116, 121, 49, 50, 51>>,  \* qwerty123
      <<102, 111, 111, 116, 98, 97, 108, 108>>,  \* football
      <<119, 101, 108, 99, 111, 109, 101>>,  \* welcome
      <<97, 100, 109, 105, 110>>,  \* admin
      <<112, 114, 105, 110, 99, 101, 115, 115>>,  \* princess
      <<108, 111, 103, 105, 110>>,  \* login
      <<115, 111, 108, 111>>,  \* solo
      <<112, 97, 115, 115, 119, 48, 114, 100>>,  \* passw0rd
      <<115, 116, 97, 114, 119, 97, 114, 115>>,  \* starwars
      <<104, 101, 108, 108, 111>>,  \* hello
      <<102, 114, 101, 101, 100, 111, 109>>,  \* freedom
      <<119, 104, 97, 116, 101, 118, 101, 114>>,  \* whatever
      <<113, 97, 122, 119, 115, 120>>,  \* qazwsx
      <<116, 114, 117, 115, 116, 110, 111, 49>>,  \* trustno1
      <<122, 97, 113, 49, 50, 119, 115, 120>>,  \* zaq12wsx
      <<112, 97, 115, 115, 119, 111, 114, 100, 49, 50, 51>>,  \* password123
      <<98, 97, 116, 109, 97, 110>>,  \* batman
      <<115, 117, 112, 101, 114, 109, 97, 110>>,  \* superman
      <<49, 50, 49, 50, 49, 50>>,  \* 121212
      <<102, 108, 111, 119, 101, 114>>,  \* flower
      <<104, 111, 116, 116, 105, 101>>,  \* hottie
      <<108, 111, 118, 101, 109, 101>>,  \* loveme
      <<112, 104, 111, 116, 111, 115, 104, 111, 112>>,  \* photoshop
      <<97, 100, 111, 98, 101, 49, 50, 51>>,  \* adobe123
      <<49, 50, 51, 113, 119, 101>>,  \* 123qwe
      <<113, 119, 101, 49, 50, 51>>,  \* qwe123
      <<113, 119, 101, 114, 116, 121, 49>>,  \* qwerty1
      <<113, 49, 119, 50, 101, 51, 114, 52>>,  \* q1w2e3r4
      <<49, 113, 97, 122, 50, 119, 115, 120>>,  \* 1qaz2wsx
      <<98, 97, 115, 101, 98, 97, 108, 108>>,  \* baseball
      <<49, 113, 97, 122, 120, 115, 119, 50>>,  \* 1qazxsw2
      <<97, 115, 100, 102, 103, 104>>,  \* asdfgh
      <<97, 115, 100, 102, 103, 104, 106, 107, 108>>,  \* asdfghjkl
      <<97, 115, 100, 102>>,  \* asdf
      <<113, 97, 122, 119, 115, 120, 101, 100, 99>>,  \* qazwsxedc
      <<112, 111, 107, 101, 109, 111, 110>>,  \* pokemon
      <<102, 111, 111, 116, 98, 97, 108, 108, 49>>,  \* football1
      <<99, 104, 97, 114, 108, 105, 101>>,  \* charlie
      <<100, 111, 110, 97, 108, 100>>,  \* donald
      <<106, 101, 110, 110, 105, 102, 101, 114>>,  \* jennifer
      <<109, 105, 99, 104, 101, 108, 108, 101>>,  \* michelle
      <<110, 105, 99, 111, 108, 101>>,  \* nicole
      <<97, 115, 104, 108, 101, 121>>,  \* ashley
      <<115, 117, 110, 115, 104, 105, 110, 101>>,  \* sunshine
      <<109, 105, 99, 104, 97, 101, 108>>,  \* michael
      <<106, 111, 114, 100, 97, 110>>,  \* jordan
      <<104, 97, 114, 108, 101, 121>>,  \* harley
      <<103, 105, 110, 103, 101, 114>>,  \* ginger
      <<115, 117, 109, 109, 101, 114>>,  \* summer
      <<116, 97, 121, 108, 111, 114>>,  \* taylor
      <<108, 105, 118, 101, 114, 112, 111, 111, 108>>,  \* liverpool
      <<99, 104, 101, 108, 115, 101, 97>>,  \* chelsea
      <<97, 114, 115, 101, 110, 97, 108>>,  \* arsenal
      <<109, 97, 110, 99, 104, 101, 115, 116, 101, 114>>,  \* manchester
      <<113, 49, 119, 50, 101, 51>>,  \* q1w2e3
      <<97, 97, 49, 50, 51, 52, 53, 54>>,  \* aa123456
      <<97, 98, 99, 49, 50, 51, 52, 53, 54>>,  \* abc123456
      <<49, 50, 51, 52, 53, 54, 55, 56, 57, 48>>,  \* 1234567890
      <<113, 119, 101, 114, 116, 121, 49, 50, 51, 52, 53>>,  \* qwerty12345
      <<49, 113, 50, 119, 51, 101>>,  \* 1q2w3e
      <<116, 101, 109, 112, 49, 50, 51>>,  \* temp123
      <<119, 101, 108, 99, 111, 109, 101, 49>>,  \* welcome1
      <<97, 100, 109, 105, 110, 49, 50, 51>>,  \* admin123
      <<114, 111, 111, 116>>,  \* root
      <<116, 111, 111, 114>>,  \* toor
      <<108, 101, 116, 109, 101, 105, 110, 49>>,  \* letmein1
      <<112, 97, 115, 115, 49, 50, 51>>,  \* pass123
      <<112, 97, 115, 115, 49, 50, 51, 52>>,  \* pass1234
      <<112, 97, 115, 115, 49, 50, 51, 52, 53>>,  \* pass12345
      <<108, 111, 118, 101>>,  \* love
      <<108, 111, 118, 101, 108, 121>>,  \* lovely
      <<115, 101, 99, 114, 101, 116>>,  \* secret
      <<115, 101, 99, 114, 101, 116, 49>>,  \* secret1
      <<112, 97, 115, 115, 119, 111, 114, 100, 33>>,  \* password!
      <<112, 97, 115, 115, 119, 111, 114, 100, 36>>,  \* password$
      <<112, 64, 115, 115, 119, 48, 114, 100>>,  \* p@ssw0rd
      <<112, 64, 115, 115, 119, 111, 114, 100>>,  \* p@ssword
      <<112, 64, 53, 53, 119, 48, 114, 100>>,  \* p@55w0rd
      <<112, 52, 115, 115, 119, 48, 114, 100>>,  \* p4ssw0rd
      <<112, 64, 115, 115, 119, 48, 114, 100, 49>>,  \* p@ssw0rd1
      <<105, 108, 111, 118, 101, 121, 111, 117, 49>>,  \* iloveyou1
      <<113, 119, 101, 114, 116>>,  \* qwert
      <<113, 119, 101, 114, 116, 121, 117, 105>>,  \* qwertyui
      <<113, 119, 101, 114, 116, 121, 117>>,  \* qwertyu
      <<113, 119, 101, 114, 116, 121, 49, 50>>,  \* qwerty12
      <<113, 119, 101, 114, 116, 121, 49, 50, 51, 52>>,  \* qwerty1234
      <<113, 119, 101, 114, 116, 121, 33>>,  \* qwerty!
      <<49, 50, 51, 51, 50, 49>>,  \* 123321
      <<54, 53, 52, 51, 50, 49>>,  \* 654321
      <<55, 55, 55, 55, 55, 55, 55>>,  \* 7777777
      <<56, 55, 54, 53, 52, 51, 50, 49>>,  \* 87654321
      <<57, 56, 55, 54, 53, 52, 51, 50, 49>>,  \* 987654321
      <<51, 49, 52, 49, 53, 57, 50, 54>>,  \* 31415926
      <<112, 97, 115, 115, 119, 111, 114, 100, 50>>,  \* password2
      <<49, 49, 50, 50, 51, 51>>,  \* 112233
      <<113, 49, 119, 50, 101, 51, 114, 52, 116, 53>>,  \* q1w2e3r4t5
      <<49, 113, 50, 119, 51, 101, 52, 114, 53, 116>>,  \* 1q2w3e4r5t
      <<113, 119, 101, 114, 116, 121, 113, 119, 101, 114, 116, 121>>,  \* qwertyqwerty
      <<108, 101, 116, 109, 101, 105, 110, 49, 50, 51>>,  \* letmein123
      <<97, 100, 109, 105, 110, 97, 100, 109, 105, 110>>,  \* adminadmin
      <<113, 97, 122, 120, 115, 119>>,  \* qazxsw
      <<122, 97, 113, 120, 115, 119>>,  \* zaqxsw
      <<116, 101, 115, 116>>,  \* test
      <<116, 101, 115, 116, 105, 110, 103>>,  \* testing
      <<116, 101, 115, 116, 49, 50, 51>>,  \* test123
      <<116, 101, 115, 116, 49>>,  \* test1
      <<112, 97, 115, 115, 119, 111, 114, 100, 48>>,  \* password0
      <<119, 101, 108, 99, 111, 109, 101, 49, 50, 51>>,  \* welcome123
      <<104, 101, 108, 108, 111, 49, 50, 51>>,  \* hello123
      <<100, 114, 97, 103, 111, 110, 49, 50, 51>>,  \* dragon123
      <<109, 111, 110, 107, 101, 121, 49, 50, 51>>,  \* monkey123
      <<115, 117, 112, 101, 114, 109, 97, 110, 49>>,  \* superman1
      <<98, 97, 116, 109, 97, 110, 49>>,  \* batman1
      <<98, 97, 115, 101, 98, 97, 108, 108, 49>>,  \* baseball1
      <<102, 111, 111, 116, 98, 97, 108, 108, 50>>,  \* football2
      <<115, 111, 99, 99, 101, 114>>,  \* soccer
      <<115, 111, 99, 99, 101, 114, 49>>,  \* soccer1
      <<104, 111, 99, 107, 101, 121>>,  \* hockey
      <<104, 111, 99, 107, 101, 121, 49>>,  \* hockey1
      <<98, 97, 115, 107, 101, 116, 98, 97, 108, 108>>,  \* basketball
      <<98, 97, 115, 107, 101, 116, 98, 97, 108, 108, 49>>,  \* basketball1
      <<99, 111, 109, 112, 117, 116, 101, 114>>,  \* computer
      <<99, 111, 109, 112, 117, 116, 101, 114, 49>>,  \* computer1
      <<105, 110, 116, 101, 114, 110, 101, 116>>,  \* internet
      <<105, 110, 116, 101, 114, 110, 101, 116, 49>>,  \* internet1
      <<113, 119, 101, 97, 115, 100>>,  \* qweasd
      <<97, 115, 100, 97, 115, 100>>,  \* asdasd
      <<97, 115, 100, 49, 50, 51>>,  \* asd123
      <<97, 115, 100, 49, 50, 51, 52, 53, 54>>,  \* asd123456
      <<97, 98, 99, 51, 50, 49>>,  \* abc321
      <<97, 98, 99, 100, 49, 50, 51, 52>>,  \* abcd1234
      <<97, 98, 99, 100, 49, 50, 51>>,  \* abcd123
      <<109, 121, 115, 112, 97, 99, 101, 49>>,  \* myspace1
      <<102, 117, 99, 107, 121, 111, 117>>,  \* fuckyou
      <<102, 117, 99, 107, 121, 111, 117, 49>>,  \* fuckyou1
      <<113, 119, 101, 97, 115, 100, 49, 50, 51>>,  \* qweasd123
      <<105, 108, 111, 118, 101, 117>>,  \* iloveu
      <<105, 108, 111, 118, 101, 117, 50>>,  \* iloveu2
      <<108, 101, 116, 109, 101, 105, 110, 33>>,  \* letmein!
      <<112, 97, 115, 115, 119, 48, 114, 100, 49>>,  \* passw0rd1
      <<108, 111, 103, 105, 110, 49, 50, 51>>,  \* login123
      <<113, 97, 122, 119, 115, 120, 49, 50, 51>>,  \* qazwsx123
      <<49, 49, 49, 49, 49, 49, 49, 49>>,  \* 11111111
      <<50, 50, 50, 50, 50, 50>>,  \* 222222
      <<51, 51, 51, 51, 51, 51>>,  \* 333333
      <<52, 52, 52, 52, 52, 52>>,  \* 444444
      <<53, 53, 53, 53, 53, 53>>,  \* 555555
      <<56, 56, 56, 56, 56, 56>>,  \* 888888
      <<57, 57, 57, 57, 57, 57>>,  \* 999999
      <<113, 49, 119, 50, 101, 51, 114, 52, 116, 53, 121, 54>>,  \* q1w2e3r4t5y6
      <<49, 113, 50, 119, 51, 101, 52, 114>>,  \* 1q2w3e4r
      <<49, 50, 51, 52, 49, 50, 51, 52>>,  \* 12341234
      <<49, 50, 49, 50, 49, 50, 49, 50>>,  \* 12121212
      <<108, 111, 118, 101, 49, 50, 51>>,  \* love123
      <<115, 101, 120, 121>>,  \* sexy
      <<115, 101, 120, 121, 49, 50, 51>>,  \* sexy123
      <<98, 108, 105, 110, 107, 49, 56, 50>>,  \* blink182
      <<109, 117, 115, 116, 97, 110, 103>>,  \* mustang
      <<104, 111, 110, 100, 97>>,  \* honda
      <<109, 101, 114, 99, 101, 100, 101, 115>>,  \* mercedes
      <<99, 104, 101, 118, 114, 111, 108, 101, 116>>,  \* chevrolet
      <<102, 101, 114, 114, 97, 114, 105>>,  \* ferrari
      <<112, 111, 114, 115, 99, 104, 101>>,  \* porsche
      <<118, 111, 108, 118, 111>>,  \* volvo
      <<102, 111, 114, 100>>,  \* ford
      <<116, 101, 115, 108, 97>>,  \* tesla
      <<110, 105, 115, 115, 97, 110>>,  \* nissan
      <<116, 111, 121, 111, 116, 97>>,  \* toyota
      <<113, 119, 101, 113, 119, 101>>,  \* qweqwe
      <<113, 119, 101, 49, 50, 51, 52, 53>>,  \* qwe12345
      <<97, 115, 100, 102, 49, 50, 51, 52>>,  \* asdf1234
      <<97, 115, 100, 102, 49, 50, 51>>,  \* asdf123
      <<49, 113, 97, 122, 50, 119, 115, 120, 51, 101, 100, 99>>,  \* 1qaz2wsx3edc
      <<33, 113, 97, 122, 50, 119, 115, 120>>,  \* !qaz2wsx
      <<97, 100, 109, 105, 110, 49>>,  \* admin1
      <<114, 111, 111, 116, 114, 111, 111, 116>>,  \* rootroot
      <<108, 101, 116, 109, 101, 105, 110, 50>>,  \* letmein2
      <<112, 97, 115, 115, 119, 48, 114, 100, 33>>,  \* passw0rd!
      <<117, 115, 101, 114>>,  \* user
      <<117, 115, 101, 114, 49, 50, 51>>,  \* user123
      <<119, 101, 108, 99, 111, 109, 101, 33>>,  \* welcome!
      <<119, 101, 108, 99, 111, 109, 101, 50>>,  \* welcome2
      <<113, 119, 101, 114, 116, 49>>,  \* qwert1
      <<113, 119, 101, 114, 116, 49, 50>>,  \* qwert12
      <<113, 119, 101, 114, 116, 49, 50, 51>>,  \* qwert123
      <<113, 119, 101, 114, 116, 49, 50, 51, 52>>,  \* qwert1234
      <<112, 97, 115, 115, 33>>,  \* pass!
      <<112, 97, 115, 115, 33, 33>>,  \* pass!!
      <<112, 97, 115, 115, 36>>,  \* pass$
      <<112, 97, 115, 115, 119, 111, 114, 100, 64>>,  \* password@
      <<112, 97, 115, 115, 64, 49, 50, 51>>,  \* pass@123
      <<112, 97, 115, 115, 64, 119, 111, 114, 100, 49>>   \* pass@word1
    >>

is_ascii_lowercase(ch) == ch >= 97 /\ ch <= 122
is_ascii_uppercase(ch) == ch >= 65 /\ ch <= 90
\* char::is_ascii_digit, on the code point
is_ascii_digit_code(ch) == ch >= 48 /\ ch <= 57
is_ascii_alphanumeric(ch) ==
    is_ascii_lowercase(ch) \/ is_ascii_uppercase(ch) \/ is_ascii_digit_code(ch)

\* char::to_lowercase for the code points below U+0100
to_lowercase_char(ch) ==
    IF is_ascii_uppercase(ch) \/ (ch >= 192 /\ ch <= 222 /\ ch # 215)
    THEN ch + 32 ELSE ch

\* str::to_lowercase
to_lowercase(s) == [i \in 1..Len(s) |-> to_lowercase_char(s[i])]

\* s.chars().rev().collect()
rev(s) == [i \in 1..Len(s) |-> s[Len(s) + 1 - i]]

\* str::contains
contains(hay, needle) ==
    \E i \in 1..(Len(hay) - Len(needle) + 1) :
        SubSeq(hay, i, i + Len(needle) - 1) = needle

\* the match of normalize_leetspeak
leetspeak_char(ch) ==
    CASE ch = 48 -> 111
      [] ch = 49 -> 108
      [] ch = 51 -> 101
      [] ch \in {52, 64} -> 97
      [] ch \in {53, 36} -> 115
      [] ch \in {54, 57} -> 103
      [] ch \in {55, 43} -> 116
      [] ch = 56 -> 98
      [] ch = 33 -> 105
      [] OTHER -> ch

normalize_leetspeak(input) == [i \in 1..Len(input) |-> leetspeak_char(input[i])]

is_repeating_char(s) == s # <<>> /\ \A i \in 1..Len(s) : s[i] = s[1]

\* the four digits of a window of a run of digits, parsed
year_value(s, i) ==
    (s[i] - 48) * 1000 + (s[i + 1] - 48) * 100 + (s[i + 2] - 48) * 10 + (s[i + 3] - 48)

\* contains_year: some four digits in a row make a number in 1900..=2099
contains_year(s) ==
    \E i \in 1..(Len(s) - 3) :
        /\ \A j \in i..(i + 3) : is_ascii_digit_code(s[j])
        /\ year_value(s, i) >= 1900
        /\ year_value(s, i) <= 2099

contains_any_token(hay, tokens, min_len) ==
    \E k \in 1..Len(tokens) : Len(tokens[k]) >= min_len /\ contains(hay, tokens[k])

contains_common_substring(hay, min_len) ==
    contains_any_token(hay, COMMON_PASSWORDS, min_len)

contains_keyboard_sequence(s, min_len) ==
    \E r \in 1..Len(COMMON_KEYBOARD_ROWS) :
        LET row_chars == COMMON_KEYBOARD_ROWS[r]
            row_len == Len(row_chars)
        IN \E k \in min_len..row_len :
               \E i \in 0..(row_len - k) :
                   LET sub == SubSeq(row_chars, i + 1, i + k)
                   IN contains(s, sub) \/ contains(s, rev(sub))

\* the loop of contains_ordered_sequence; prev is -1 for None
RECURSIVE ordered_sequence_from(_, _, _, _, _)
ordered_sequence_from(s, min_len, inc_run, dec_run, prev) ==
    IF s = <<>> THEN FALSE
    ELSE LET ch == Head(s)
             inc == IF ch - prev = 1 THEN inc_run + 1 ELSE 1
             dec == IF ch - prev = -1 THEN dec_run + 1 ELSE 1
         IN IF ~is_ascii_alphanumeric(ch)
            THEN ordered_sequence_from(Tail(s), min_len, 1, 1, -1)
            ELSE IF prev = -1
                 THEN ordered_sequence_from(Tail(s), min_len, inc_run, dec_run, ch)
            ELSE IF inc >= min_len \/ dec >= min_len THEN TRUE
            ELSE ordered_sequence_from(Tail(s), min_len, inc, dec, ch)

contains_ordered_sequence(s, min_len) ==
    IF min_len <= 1 THEN FALSE ELSE ordered_sequence_from(s, min_len, 1, 1, -1)

\* classify_chars, as the number of classes found
classify_chars(s) ==
    Cardinality({IF is_ascii_lowercase(s[i]) THEN "l"
                 ELSE IF is_ascii_uppercase(s[i]) THEN "u"
                 ELSE IF is_ascii_digit_code(s[i]) THEN "d"
                 ELSE "sym" : i \in 1..Len(s)})

Bit(b, bits) == IF b THEN bits ELSE 0

\* f64::clamp
clamp(x, lo, hi) == IF x < lo THEN lo ELSE IF x > hi THEN hi ELSE x

\* pattern_penalty_bits; the penalty is a sum of whole numbers of bits
pattern_penalty_bits(password) ==
    LET lower == to_lowercase(password)
        norm == normalize_leetspeak(lower)
        classes == classify_chars(password)
        penalty ==
            Bit(\E k \in 1..Len(COMMON_PASSWORDS) : COMMON_PASSWORDS[k] = lower, 60)
            + Bit(\E k \in 1..Len(COMMON_PASSWORDS) : COMMON_PASSWORDS[k] = norm, 40)
            + Bit(\E k \in 1..Len(COMMON_PASSWORDS) : COMMON_PASSWORDS[k] = rev(lower), 30)
            + Bit(contains_common_substring(lower, 4), 12)
            + Bit(contains_common_substring(norm, 4), 10)
            + Bit(is_repeating_char(lower), 40)
            + Bit(contains_ordered_sequence(lower, 4), 15)
            + Bit(contains_keyboard_sequence(lower, 4), 15)
            + Bit(contains_year(lower), 10)
            + Bit(contains_any_token(lower, COMMON_MONTHS_DAYS, 3), 10)
            + (IF classes <= 1 THEN 20
               ELSE IF classes = 2 /\ Len(password) <= 10 THEN 10 ELSE 0)
    IN IF password = <<>> THEN 0 ELSE clamp(penalty, 0, 100)

\* f64::log2 of the whole numbers from 1 to 64, in thousandths, rounded
Log2Milli ==
    <<0, 1000, 1585, 2000, 2322, 2585, 2807, 3000, 3170, 3322, 3459,
      3585, 3700, 3807, 3907, 4000, 4087, 4170, 4248, 4322, 4392, 4459,
      4524, 4585, 4644, 4700, 4755, 4807, 4858, 4907, 4954, 5000, 5044,
      5087, 5129, 5170, 5209, 5248, 5285, 5322, 5358, 5392, 5426, 5459,
      5492, 5524, 5555, 5585, 5615, 5644, 5672, 5700, 5728, 5755, 5781,
      5807, 5833, 5858, 5883, 5907, 5931, 5954, 5977, 6000>>

RECURSIVE SumOver(_, _)
SumOver(f, S) ==
    IF S = {} THEN 0
    ELSE LET x == CHOOSE x \in S : TRUE IN f[x] + SumOver(f, S \ {x})

\* the entropy before the penalty, in thousandths of a bit: with p the
\* share count / len of a character, the sum of -p * log2(p) over the
\* characters, times len; that is the sum of count * (log2(len) -
\* log2(count))
shannon_entropy(password) ==
    LET len == Len(password)
        freq == [c \in Range(password) |->
                    Cardinality({i \in 1..len : password[i] = c})]
        part == [c \in Range(password) |->
                    freq[c] * (Log2Milli[len] - Log2Milli[freq[c]])]
    IN SumOver(part, Range(password))

\* the if of calculate_shannon_entropy over the bits, in thousandths (the
\* bits are a number after max(0.0), never NaN)
rating_of(entropy) ==
    IF entropy <= 28000 THEN "Very Weak"
    ELSE IF entropy <= 35000 THEN "Weak"
    ELSE IF entropy <= 59000 THEN "Okay"
    ELSE IF entropy <= 127000 THEN "Strong"
    ELSE "Very Strong"

\* f64::max
max(x, y) == IF x >= y THEN x ELSE y

\* A faulty variant of calculate_shannon_entropy: the difference is not
\* floored.
calculate_shannon_entropy_no_floor(password) ==
    LET entropy == shannon_entropy(password) - 1000 * pattern_penalty_bits(password)
    IN [bits |-> entropy, rating |-> rating_of(entropy)]

\* calculate_shannon_entropy: the bits (in thousandths) and the rating
calculate_shannon_entropy(password) ==
    LET penalty == 1000 * pattern_penalty_bits(password)
        entropy == max(shannon_entropy(password) - penalty, 0)
    IN [bits |-> entropy, rating |-> rating_of(entropy)]

\* the greatest length of the passwords over "a", "A", "1", "!" that are
\* all rated
MaxChars == 2
\* the greatest length of the prefixes of PatternFree that are rated
MaxPrefix == 30

\* 44 characters of four classes that hold none of the patterns
PatternFree ==
    <<126, 121, 86, 109, 105, 104, 65, 37, 50, 79, 55, 76, 43, 68, 120,
      116, 112, 89, 108, 83, 88, 53, 102, 75, 54, 72, 70, 118, 67,
      115, 77, 101, 61, 71, 45, 107, 85, 106, 94, 78, 99, 81, 117,
      82>>

\* passwords with patterns: a common password, as it is, in leetspeak,
\* reversed and with a capital and a digit; one character repeated; an
\* ordered and a keyboard sequence; a year and none; a weekday; eight
\* lower case letters twice, and with one more; a mixed one; "ÉÉ"
Patterned ==
    {<<112, 97, 115, 115, 119, 111, 114, 100>>,
     <<112, 64, 115, 115, 119, 48, 114, 100>>,
     <<100, 114, 111, 119, 115, 115, 97, 112>>,
     <<97, 97, 97, 97, 97, 97, 97, 97>>,
     <<97, 98, 99, 100>>,
     <<100, 99, 98, 97>>,
     <<113, 119, 101, 114>>,
     <<49, 57, 57, 57, 120>>,
     <<120, 50, 49, 48, 48>>,
     <<109, 111, 110, 100, 97, 121>>,
     <<80, 97, 115, 115, 119, 111, 114, 100, 49>>,
     <<107, 118, 122, 109, 98, 120, 113, 100, 107, 118, 122, 109, 98, 120, 113, 100>>,
     <<107, 118, 122, 109, 98, 120, 113, 100, 107, 118, 122, 109, 98, 120, 113, 100, 119>>,
     <<84, 114, 48, 117, 98, 52, 100, 111, 114, 38, 51>>,
     <<201, 201>>}

EntropyPasswords ==
    UNION {[1..n -> {97, 65, 49, 33}] : n \in 0..MaxChars}
    \cup {SubSeq(PatternFree, 1, n) : n \in 0..MaxPrefix}
    \cup Patterned
    \cup {SubSeq(PatternFree, 1, 20) \o p : p \in Patterned}

InitEntropy ==
    /\ fs = InitFs
    /\ now = Epoch0
    /\ op = "init"
    /\ arg \in [password : EntropyPasswords]
    /\ ret = [ok |-> TRUE, val |-> FALSE, err |-> "none"]
    /\ steps = <<>>
    /\ pre = NoPre
    /\ procs = NoProcs
    /\ gui = NoApp
    /\ hist = [v \in Vaults |-> FALSE]

CalculateShannonEntropy ==
    /\ op = "init"
    /\ ret' = [ok |-> TRUE, val |-> calculate_shannon_entropy(arg.password),
               err |-> "none"]
    /\ op' = "calculate_shannon_entropy"
    /\ UNCHANGED <<fs, now, arg, steps, pre, hist, procs, gui>>

NextEntropy == CalculateShannonEntropy

SpecEntropy == InitEntropy /\ [][NextEntropy]_vars

\* the rating the specification states for the bits (in thousandths)
StatedRating(bits) ==
    CASE bits <= 28000 -> "Very Weak"
      [] bits > 28000 /\ bits <= 35000 -> "Weak"
      [] bits > 35000 /\ bits <= 59000 -> "Okay"
      [] bits > 59000 /\ bits <= 127000 -> "Strong"
      [] OTHER -> "Very Strong"

RatingRank(rating) ==
    CASE rating = "Very Weak" -> 0
      [] rating = "Weak" -> 1
      [] rating = "Okay" -> 2
      [] rating = "Strong" -> 3
      [] rating = "Very Strong" -> 4

\* what calculate_shannon_entropy returns for the passwords rated
EntropyResults == {calculate_shannon_entropy(p) : p \in EntropyPasswords}

\* C19: calculate_shannon_entropy never returns negative bits; the rating
\* is the one the thresholds 28, 35, 59 and 127 give for the bits; a
\* password with no fewer bits than another has no lower rating; the empty
\* password is Very Weak.
C19_BitsAndRating ==
    op = "calculate_shannon_entropy" =>
        /\ ret.val.bits >= 0
        /\ ret.val.rating = StatedRating(ret.val.bits)
        /\ arg.password = <<>> => ret.val.rating = "Very Weak"
        /\ \A other \in EntropyResults :
               other.bits <= ret.val.bits =>
                   RatingRank(other.rating) <= RatingRank(ret.val.rating)

\* a common password with a capital and a digit has been rated: its penalty
\* is greater than its entropy
C19_Witness ==
    /\ op = "calculate_shannon_entropy"
    /\ arg.password = <<80, 97, 115, 115, 119, 111, 114, 100, 49>>
    /\ shannon_entropy(arg.password) < 1000 * pattern_penalty_bits(arg.password)
    /\ ret.val.bits = 0

\* a password has been rated Very Strong
C19_WitnessVeryStrong ==
    /\ op = "calculate_shannon_entropy"
    /\ ret.val.rating = "Very Strong"

\* eight lower case letters twice have been rated: 48 bits less 20 are 28
C19_WitnessThreshold ==
    /\ op = "calculate_shannon_entropy"
    /\ ret.val.bits = 28000
    /\ ret.val.rating = "Very Weak"

(***************************************************************************)
(* Two processes that update the ledger at the same time (src/totp.rs)     *)
(***************************************************************************)

\* another vault, named in the ledger
VaultB == <<"b">>

\* The calls of the two processes: enable_totp and disable_totp of the
\* vault "a", and the ledger_add and ledger_remove that enable_totp and
\* disable_totp of the vault "b" end with.
RaceCalls ==
    {[call |-> "enable_totp", vault |-> VaultA],
     [call |-> "disable_totp", vault |-> VaultA],
     [call |-> "ledger_add", vault |-> VaultB],
     [call |-> "ledger_remove", vault |-> VaultB]}

\* the first step of a call
first_pc(call) ==
    CASE call = "enable_totp" -> "secret"
      [] call = "disable_totp" -> "remove"
      [] OTHER -> "load1"

\* the step after a step: the secret, the gate, then the loop of
\* ledger_add or ledger_remove over the two paths
next_pc(pc) ==
    CASE pc = "secret" -> "gate"
      [] pc = "gate" -> "load1"
      [] pc = "remove" -> "load1"
      [] pc = "load1" -> "save1"
      [] pc = "save1" -> "load2"
      [] pc = "load2" -> "save2"
      [] pc = "save2" -> "done"

Running(proc) == proc.pc \notin {"idle", "done"}

\* A faulty variant of ledger_update: what was loaded is dropped.
ledger_update_only_own(proc) ==
    IF proc.call \in {"enable_totp", "ledger_add"} THEN {proc.vault} ELSE {}

\* set.insert(vault) of ledger_add, set.remove(vault) of ledger_remove
ledger_update(proc) ==
    IF proc.call \in {"enable_totp", "ledger_add"}
    THEN proc.set \cup {proc.vault}
    ELSE proc.set \ {proc.vault}

\* the files after the step of a process
step_files(w, proc) ==
    CASE proc.pc = "secret" -> encrypt_and_store_secret(w, proc.vault, Secret1, "none").w
      [] proc.pc = "gate" -> ensure_gate_exists(w, proc.vault, "none").w
      [] proc.pc = "remove" ->
             IF Exists(w.totp[proc.vault]) THEN [w EXCEPT !.totp[proc.vault] = NoFile]
             ELSE w
      [] proc.pc = "save1" ->
             save_ledger_at(w, LedgerPaths[1], ledger_update(proc), "none").w
      [] proc.pc = "save2" ->
             save_ledger_at(w, LedgerPaths[2], ledger_update(proc), "none").w
      [] OTHER -> w

\* the local `set` after the step of a process
step_set(w, proc) ==
    CASE proc.pc = "load1" -> load_ledger_at(w, LedgerPaths[1])
      [] proc.pc = "load2" -> load_ledger_at(w, LedgerPaths[2])
      [] OTHER -> proc.set

\* a process calls into the ledger; the calls overlap when the other
\* process is in its call
ProcBegin(p) ==
    /\ procs.of[p].pc = "idle"
    /\ \E c \in RaceCalls :
           procs' = [overlap |-> procs.overlap
                                 \/ \E q \in Procs \ {p} : Running(procs.of[q]),
                     of |-> [procs.of EXCEPT ![p] =
                                [call |-> c.call, vault |-> c.vault,
                                 pc |-> first_pc(c.call), set |-> {},
                                 seq |-> 1 + Cardinality({q \in Procs :
                                                    procs.of[q].pc # "idle"})]]]
    /\ UNCHANGED <<fs, now, op, arg, ret, steps, pre, hist, gui>>

\* a process takes the next step of its call
ProcStep(p) ==
    /\ Running(procs.of[p])
    /\ fs' = step_files(fs, procs.of[p])
    /\ procs' = [procs EXCEPT !.of[p].set = step_set(fs, procs.of[p]),
                              !.of[p].pc = next_pc(@)]
    /\ UNCHANGED <<now, op, arg, ret, steps, pre, hist, gui>>

NextRace == \E p \in Procs : ProcBegin(p) \/ ProcStep(p)

SpecRace == Init /\ [][NextRace]_vars

AllDone == \A p \in Procs : procs.of[p].pc = "done"

InCopy(v, path) == v \in load_ledger_at(fs, path)

\* the call on a vault that began last was one that adds it
AddedLast(v) ==
    \E p \in Procs :
        /\ procs.of[p].vault = v
        /\ procs.of[p].call \in {"enable_totp", "ledger_add"}
        /\ \A q \in Procs : procs.of[q].vault = v => procs.of[q].seq <= procs.of[p].seq

\* C20: the ledger is read, changed and written without a lock, so that an
\* update is lost only when calls run at the same time.  When the calls of
\* two processes did not overlap, in the end the two copies of the ledger
\* agree and hold a vault exactly when the last call on it added it; the
\* states in which the copies disagree about a vault, or lack a vault that
\* enable_totp has been completed for, are reached by calls that overlap.
C20_LostOnlyWhenConcurrent ==
    (AllDone /\ ~procs.overlap) =>
        \A v \in {VaultA, VaultB} :
            /\ InCopy(v, "config") = InCopy(v, "data")
            /\ (\E p \in Procs : procs.of[p].vault = v) =>
                   (InCopy(v, "config") = AddedLast(v))

\* enable_totp and disable_totp of a vault have both been completed and
\* the two copies of the ledger disagree about the vault
C20_Witness ==
    /\ AllDone
    /\ procs.overlap
    /\ {procs.of[p].call : p \in Procs} = {"enable_totp", "disable_totp"}
    /\ InCopy(VaultA, "config") # InCopy(VaultA, "data")

\* enable_totp of a vault and the ledger_add of another have both been
\* completed and no copy of the ledger holds the vault
C20_WitnessLost ==
    /\ AllDone
    /\ procs.overlap
    /\ {procs.of[p].call : p \in Procs} = {"enable_totp", "ledger_add"}
    /\ Exists(fs.totp[VaultA])
    /\ ~InCopy(VaultA, "config")
    /\ ~InCopy(VaultA, "data")
    /\ InCopy(VaultB, "config")

(***************************************************************************)
(* Further properties of the account store                                 *)
(***************************************************************************)

\* the username "a:b"
UserWithColon == <<97, Colon, 98>>

\* C23: encrypt_to_file does not refuse a username with a ':'.  With the
\* recipient resolved, the account directory there and no I/O error, the
\* write of the username "a:b" with any password succeeds, and the
\* decrypt_from_file that follows returns the username "a" and the password
\* "b:" followed by the password written.
C23_ColonMovesIntoPassword ==
    [][/\ \A v \in StoreVaults, a \in StoreAccounts, p \in StorePasswords :
              (RecipientResolves(fs, v) /\ a \in fs.acct[v]) =>
                  encrypt_to_file(fs, v, a, [username |-> UserWithColon,
                                             password |-> p], "none").ok
       /\ (EncryptThenDecrypt /\ arg.user = UserWithColon) =>
              /\ ret'.ok
              /\ ret'.val = [username |-> <<97>>,
                             password |-> <<98, Colon>> \o arg.pass]
      ]_vars

\* the username "a:b" was written with the empty password and read back as
\* "a" with the password "b:"
C23_Witness ==
    /\ op = "decrypt_from_file"
    /\ ret.ok
    /\ DataFile.plain = <<97, Colon, 98, Colon>>
    /\ ret.val.username = <<97>>
    /\ ret.val.password = <<98, Colon>>

(***************************************************************************)
(* Further properties of code verification                                 *)
(***************************************************************************)

\* a code of seven or of eight ASCII digits, whitespace apart
LongCode(code) ==
    LET c == RemoveWhitespace(code)
    IN /\ Len(c) \in {7, 8}
       /\ \A i \in 1..Len(c) : c[i] \in Range(AsciiDigits)

\* C28 as stated: verify_totp_code returns Ok(false) for every code of
\* seven or eight digits, at every time.
C28_LongCodesAlwaysOkFalse ==
    (op = "verify_totp_code" /\ LongCode(arg.code)) => (ret.ok /\ ret.val = FALSE)

\* C28: verify_totp_code never returns Ok(true) for a code of seven or of
\* eight digits, at any time.  Such a code passes the format check and
\* decrypt_secret is called; when totp.gpg is decrypted the result is
\* Ok(false), every candidate having six digits; when totp.gpg is missing
\* or is not decrypted the result is the error of decrypt_secret.
C28_LongCodesNeverVerify ==
    (op = "verify_totp_code" /\ LongCode(arg.code)) =>
        /\ ~(ret.ok /\ ret.val)
        /\ pre.totp => /\ IndexOf(steps, "secret.open") > 0
                       /\ IndexOf(steps, "secret.decrypt") > 0
        /\ ret.ok <=> (pre.totp /\ ret.err # "Failed to decrypt TOTP secret")
        /\ ~pre.totp => (~ret.ok /\ ret.err = "2FA is not enabled")
        /\ pre.totp =>
               \A i \in 1..Len(Skews) :
                   Len(format_code(hotp(fs.totp[arg.vault].plain,
                                        (now \div Step) + Skews[i], Digits), Digits)) = 6

\* the code of the current step with a digit more was typed after the clock
\* had moved, totp.gpg was decrypted and the code was rejected
C28_Witness ==
    /\ op = "verify_totp_code"
    /\ LongCode(arg.code)
    /\ pre.totp
    /\ now > Epoch0
    /\ SubSeq(arg.code, 1, 6) = Rfc4226Code(fs.totp[arg.vault].plain, now \div 30)
    /\ IndexOf(steps, "secret.decrypt") > 0
    /\ ret.ok
    /\ ~ret.val

(***************************************************************************)
(* Further properties of the TOTP subsystem                                *)
(***************************************************************************)

\* the steps of enable_totp that fail after the secret was stored
LateEnableFaults == {"gate.encrypt", "gate.create", "gate.chmod", "gate.write",
                     "ledger.config", "ledger.data"}

\* C27: enable_totp does not roll back.  When it fails after
\* encrypt_and_store_secret succeeded, in ensure_gate_exists or in
\* ledger_add, totp.gpg holds the new secret, whatever secret it held
\* before, the call has returned an error and no secret, and
\* is_totp_required(V) returns true afterwards.  (The first conjunct calls
\* enable_totp once more, with every secret and every late failure, in the
\* states an enable_totp has left; the second is about the call made.)
C27_NoRollback ==
    /\ op = "enable_totp" =>
           \A secret \in Range(SecretPool), fault \in LateEnableFaults :
               LET v == arg.vault
                   r == enable_totp(fs, v, secret, fault)
               IN (~r.ok /\ IndexOf(r.steps, "secret.write") > 0) =>
                      /\ r.w.totp[v] = Envelope(secret, Mode600)
                      /\ r.val = FALSE
                      /\ \A f \in LedgerFaults : is_totp_required(r.w, v, f).val
    /\ (op = "enable_totp" /\ ~ret.ok /\ IndexOf(steps, "secret.write") > 0) =>
           /\ fs.totp[arg.vault].kind = "pgp"
           /\ fs.totp[arg.vault].plain \in Secrets
           /\ ret.val = FALSE
           /\ \A f \in LedgerFaults : is_totp_required(fs, arg.vault, f).val

\* enable_totp failed in ledger_add on a vault that had a secret, and the
\* vault is in neither ledger copy
C27_Witness ==
    /\ op = "enable_totp"
    /\ ~ret.ok
    /\ pre.totp
    /\ IndexOf(steps, "secret.write") > 0
    /\ Exists(fs.totp[arg.vault])
    /\ InNoCopy(fs, arg.vault)

\* enable_totp failed in ensure_gate_exists and left the first totp.gpg of
\* the vault behind
C27_WitnessGate ==
    /\ op = "enable_totp"
    /\ ~ret.ok
    /\ ~pre.totp
    /\ ret.err = "Failed to encrypt gate file"
    /\ Exists(fs.totp[arg.vault])
    /\ ~Exists(fs.gate[arg.vault])

\* the calls C26 is about
LedgerCalls == {"enable_totp", "disable_totp", "is_totp_required"}

\* what the program keeps for the vault x is the same in w1 and in w2
SameForVault(w1, w2, x) ==
    /\ InLedgerCopy(w1, "config", x) = InLedgerCopy(w2, "config", x)
    /\ InLedgerCopy(w1, "data", x) = InLedgerCopy(w2, "data", x)
    /\ w1.totp[x] = w2.totp[x]
    /\ w1.gate[x] = w2.gate[x]

\* C26: enable_totp(V), disable_totp(V) and is_totp_required(V) leave every
\* other vault W untouched, whether they succeed or fail: W is in each
\* ledger copy after the call exactly when it was before, and W's totp.gpg
\* and gate.gpg are the same.
C26_OtherVaultsUntouched ==
    [][op' \in LedgerCalls =>
           \A x \in Vaults \ {arg'.vault} : SameForVault(fs, fs', x)]_vars

\* C26 for the calls on a vault whose name has no surrounding whitespace
C26_ForTrimmedName ==
    [][(op' \in LedgerCalls /\ arg'.vault = trim(arg'.vault)) =>
           \A x \in Vaults \ {arg'.vault} : SameForVault(fs, fs', x)]_vars

\* the part of C26 about the files: totp.gpg and gate.gpg of every other
\* vault are the same after the call
C26_OtherFilesUntouched ==
    [][op' \in LedgerCalls =>
           \A x \in Vaults \ {arg'.vault} :
               fs'.totp[x] = fs.totp[x] /\ fs'.gate[x] = fs.gate[x]]_vars

(***************************************************************************)
(* Further properties of a vault                                           *)
(***************************************************************************)

\* the recipient file of the vault is there and holds a recipient id
HoldsRecipient(w, vault) ==
    w.recipient[vault].exists /\ trim(w.recipient[vault].text) # <<>>

\* the recipient file of the vault is there and is empty
RecipientEmpty(w, vault) == w.recipient[vault] = TextFile(<<>>)

C30_WitnessEncrypt ==
    /\ op = "encrypt_to_file"
    /\ ~ret.ok
    /\ ret.err = "Failed to find recipient"
    /\ RecipientEmpty(fs, arg.vault)
    /\ DataFile.kind = "pgp"

(***************************************************************************)
(* The state machine of a vault that is deleted and made again while the   *)
(* ledger stays.  hist[v] follows the vault v: "off", "enabled" (the last  *)
(* enable_totp succeeded and no disable_totp was called since), "deleted"  *)
(* (its directory was removed after that) and "recreated" (a new vault of  *)
(* that name was made after that).                                         *)
(***************************************************************************)

InitRecreate ==
    /\ fs = InitFs
    /\ now = Epoch0
    /\ op = "init"
    /\ arg = NoArg
    /\ ret = [ok |-> TRUE, val |-> FALSE, err |-> "none"]
    /\ steps = <<>>
    /\ pre = NoPre
    /\ procs = NoProcs
    /\ gui = NoApp
    /\ hist = [v \in Vaults |-> "off"]

RecreateFaults == {"none", "ledger.data"}

EnableTotpOf ==
    \E v \in Vaults, secret \in Secrets, fault \in RecreateFaults :
        LET r == enable_totp(fs, v, secret, fault)
        IN /\ Called("enable_totp", [NoArg EXCEPT !.vault = v], r)
           /\ pre' = PreOf(v)
           /\ hist' = [hist EXCEPT ![v] = IF r.ok THEN "enabled" ELSE "off"]
           /\ UNCHANGED now

DisableTotpOf ==
    \E v \in Vaults, fault \in RecreateFaults :
        LET r == disable_totp(fs, v, fault)
        IN /\ Called("disable_totp", [NoArg EXCEPT !.vault = v], r)
           /\ pre' = PreOf(v)
           /\ hist' = [hist EXCEPT ![v] = "off"]
           /\ UNCHANGED now

IsTotpRequiredOf ==
    \E v \in Vaults, fault \in RecreateFaults :
        LET r == is_totp_required(fs, v, fault)
        IN /\ Called("is_totp_required", [NoArg EXCEPT !.vault = v], r)
           /\ pre' = PreOf(v)
           /\ UNCHANGED <<now, hist>>

\* the directory of a vault is removed with all that is in it
DeleteVaultDirectory ==
    \E v \in Vaults :
        LET r == remove_vault(fs, v)
        IN /\ fs.vaultDir[v]
           /\ Called("remove_vault", [NoArg EXCEPT !.vault = v], r)
           /\ pre' = PreOf(v)
           /\ hist' = [hist EXCEPT ![v] = IF @ = "off" THEN "off" ELSE "deleted"]
           /\ UNCHANGED now

\* a new vault is made under a name that no directory has
InitializeNewVault ==
    \E v \in Vaults :
        LET r == initialize_vault(fs, v, "none")
        IN /\ ~fs.vaultDir[v]
           /\ Called("initialize_vault", [NoArg EXCEPT !.vault = v], r)
           /\ pre' = PreOf(v)
           /\ hist' = [hist EXCEPT ![v] = IF @ = "deleted" THEN "recreated" ELSE @]
           /\ UNCHANGED now

\* the front end writes the recipient id into the recipient file
WriteRecipient ==
    \E v \in Vaults :
        /\ fs.recipient[v] = TextFile(<<>>)
        /\ External("write_recipient", [NoArg EXCEPT !.vault = v],
                    [fs EXCEPT !.recipient[v] = TextFile(KeyId)])
        /\ pre' = PreOf(v)

NextRecreate ==
    \/ EnableTotpOf
    \/ DisableTotpOf
    \/ IsTotpRequiredOf
    \/ VerifyTotpCode(TotpCodes, NoFaults)
    \/ DeleteVaultDirectory
    \/ InitializeNewVault
    \/ WriteRecipient

SpecRecreate == InitRecreate /\ [][NextRecreate]_vars

\* what C29 says of a call on the vault v
LedgerOutlivesVault(v) ==
    /\ (op' = "is_totp_required" /\ arg'.vault = v /\ hist[v] = "recreated") => ret'.val
    /\ (/\ op' = "verify_totp_code"
        /\ arg'.vault = v
        /\ hist[v] = "recreated"
        /\ code_well_formed(normalize_code(arg'.code))) =>
           (~ret'.ok /\ ret'.err = "2FA is not enabled")
    /\ (op' \in {"remove_vault", "initialize_vault"} /\ arg'.vault = v) =>
           fs'.ledger = fs.ledger

\* C29: the ledger is keyed by the name of the vault and outlives its
\* directory.  After enable_totp(V) has succeeded, the directory of V has
\* been removed and a new vault V has been made with initialize_vault,
\* is_totp_required(V) returns true and verify_totp_code(V, c) fails with
\* "2FA is not enabled" for every well-formed code c, until disable_totp(V)
\* is called (or enable_totp(V) again).
C29_LedgerOutlivesVault == [][\A v \in Vaults : LedgerOutlivesVault(v)]_vars

\* C29 for the vault whose name has no surrounding whitespace
C29_ForTrimmedName ==
    [][\A v \in Vaults : v = trim(v) => LedgerOutlivesVault(v)]_vars

\* is_totp_required returned true for a vault made again after its TOTP was
\* enabled and its directory removed
C29_Reached ==
    /\ op = "is_totp_required"
    /\ hist[arg.vault] = "recreated"
    /\ ~Exists(fs.totp[arg.vault])
    /\ ret.val

(***************************************************************************)
(* The graphical front end (src/gui.rs, src/sidebar.rs, src/popups.rs):    *)
(* the selection of a vault and of an account, and the TOTP popup.  A      *)
(* frame is one call of FmpApp::update: its beginning, then the handler of *)
(* what was clicked or typed in it.                                        *)
(***************************************************************************)

\* Duration::from_secs(120)
VerifiedSecs == 120

\* warm_up_gpg: gate.gpg is opened and decrypted; `fault` is the engine
\* refusing (the passphrase prompt canceled)
warm_up_gpg(w, vault, fault) ==
    IF ~Exists(w.gate[vault]) THEN Err(w, <<>>, "io")
    ELSE IF w.gate[vault].kind # "pgp" \/ fault = "gate.decrypt"
         THEN Err(w, <<"gate.open", "gate.decrypt">>, "Failed to decrypt warm-up file")
         ELSE Ok(w, <<"gate.open", "gate.decrypt">>, TRUE)

\* get_account_details: Store::decrypt_from_file on the account
get_account_details(w, vault, account, fault) ==
    decrypt_from_file(NoBuffers(w), vault, account, fault)

\* FmpApp::fetch_account_names: the directories of the vault; the names
\* stay as they are when the directory cannot be read
fetch_account_names(app, w) ==
    IF w.vaultDir[app.vault_name]
    THEN [app EXCEPT !.account_names =
              {e.file_name : e \in {x \in read_dir(w, app.vault_name) : x.is_dir}}]
    ELSE app

\* the beginning of FmpApp::update: the account names are fetched when
\* asked for, and a deadline that has passed is dropped
update_begin(app, w, t) ==
    LET fetched == IF app.needs_refresh_accounts /\ app.vault_name # <<>>
                   THEN [fetch_account_names(app, w) EXCEPT !.needs_refresh_accounts = FALSE]
                   ELSE app
    IN IF fetched.totp_verified_until.some /\ t >= fetched.totp_verified_until.at
       THEN [fetched EXCEPT !.totp_verified_until = None]
       ELSE fetched

\* A faulty variant of modal_active: the TOTP popup does not count.
modal_active_without_totp(app) == FALSE

\* modal_active of the side panel (quit, the welcome and the confirmation
\* popup are closed): the sidebar is disabled while it holds
modal_active(app) == app.show_totp_popup

\* account_view of render_accounts_section, with no filter typed
account_view(app) == IF app.vault_name = <<>> THEN {} ELSE app.account_names

\* A faulty variant of select_vault: the deadline and the code typed stay.
select_vault_keep_verified(app, w, vault, fault) ==
    LET req == is_totp_required(w, vault, "none")
        gate == ensure_gate_exists(req.w, vault, "none")
        warm == warm_up_gpg(gate.w, vault, fault)
        selected == [app EXCEPT !.userpass = NoUserPass,
                                !.vault_name = vault,
                                !.account_names = {},
                                !.account_name = "",
                                !.needs_refresh_accounts = TRUE,
                                !.totp_required = req.val,
                                !.show_totp_popup = IF req.val THEN TRUE ELSE @]
    IN IF req.val THEN [app |-> selected, w |-> gate.w, steps |-> req.steps \o gate.steps]
       ELSE IF warm.ok
            THEN [app |-> selected, w |-> warm.w,
                  steps |-> req.steps \o gate.steps \o warm.steps]
            ELSE [app |-> [selected EXCEPT !.vault_name = <<>>],
                  w |-> warm.w, steps |-> req.steps \o gate.steps \o warm.steps]

\* select_vault: the errors of ensure_gate_exists are logged and dropped;
\* a vault that needs no code is warmed up at once and deselected when that
\* fails
select_vault(app, w, vault, fault) ==
    LET req == is_totp_required(w, vault, "none")
        gate == ensure_gate_exists(req.w, vault, "none")
        warm == warm_up_gpg(gate.w, vault, fault)
        selected == [app EXCEPT !.userpass = NoUserPass,
                                !.vault_name = vault,
                                !.account_names = {},
                                !.account_name = "",
                                !.needs_refresh_accounts = TRUE,
                                !.totp_required = req.val,
                                !.totp_code_input = <<>>,
                                !.totp_verified_until = None,
                                !.show_totp_popup = IF req.val THEN TRUE ELSE @]
    IN IF req.val THEN [app |-> selected, w |-> gate.w, steps |-> req.steps \o gate.steps]
       ELSE IF warm.ok
            THEN [app |-> selected, w |-> warm.w,
                  steps |-> req.steps \o gate.steps \o warm.steps]
            ELSE [app |-> [selected EXCEPT !.vault_name = <<>>],
                  w |-> warm.w, steps |-> req.steps \o gate.steps \o warm.steps]

\* select_account
select_account(app, w, account, fault) ==
    LET r == get_account_details(w, app.vault_name, account, fault)
        named == [app EXCEPT !.account_name = account]
    IN [app |-> IF r.ok THEN [named EXCEPT !.userpass = r.val] ELSE named, r |-> r]

\* what a click in the TOTP popup ended as
PopupResult(app, w, r, warmed) == [app |-> app, w |-> w, r |-> r, warmed |-> warmed]

\* A faulty variant of totp_popup: the vault is marked verified without the
\* warm-up.
totp_popup_no_warm_up(app, w, t, button, fault) ==
    LET r == verify_totp_code(w, app.vault_name, app.totp_code_input, t, fault)
        verified == [app EXCEPT !.totp_verified_until = Some(t + VerifiedSecs),
                                !.totp_code_input = <<>>,
                                !.show_totp_popup = FALSE]
    IN IF button = "Cancel"
       THEN PopupResult([app EXCEPT !.vault_name = <<>>, !.show_totp_popup = FALSE],
                        w, Ok(w, <<>>, FALSE), FALSE)
       ELSE IF r.ok /\ r.val THEN PopupResult(verified, r.w, r, FALSE)
       ELSE PopupResult(app, r.w, r, FALSE)

\* totp_popup with `button` clicked: Verify or Cancel
totp_popup(app, w, t, button, fault) ==
    LET r == verify_totp_code(w, app.vault_name, app.totp_code_input, t, fault)
        warm == warm_up_gpg(r.w, app.vault_name, fault)
        verified == [app EXCEPT !.totp_verified_until = Some(t + VerifiedSecs),
                                !.totp_code_input = <<>>,
                                !.show_totp_popup = FALSE]
    IN IF button = "Cancel"
       THEN PopupResult([app EXCEPT !.vault_name = <<>>, !.show_totp_popup = FALSE],
                        w, Ok(w, <<>>, FALSE), FALSE)
       ELSE IF r.ok /\ r.val
            THEN IF warm.ok
                 THEN PopupResult(verified, warm.w,
                                  Ok(warm.w, r.steps \o warm.steps, TRUE), TRUE)
                 ELSE PopupResult(app, warm.w,
                                  Ok(warm.w, r.steps \o warm.steps, TRUE), FALSE)
       ELSE PopupResult(app, r.w, r, FALSE)

(***************************************************************************)
(* The state machine of the front end.  hist follows the selection:        *)
(* selected is the vault clicked last, locked holds from the selection of  *)
(* a vault that needs a code until a code is verified and the warm-up      *)
(* succeeds, verified_vault is the vault a code was verified for since the *)
(* selection, carried the deadline held when the vault was clicked and     *)
(* previous the vault clicked before.                                      *)
(***************************************************************************)

\* how many minutes the clock is followed for
MaxMinutes == 3

\* the vaults that have TOTP enabled at the start
GuiTotpVaults == {{VaultA}, {VaultA, VaultASp}}

\* The codes typed: those of Secret1 for the step of Epoch0 and for the
\* step two minutes later, and five digits.
GuiCodes == {<<"0", "3", "9", "1", "8", "8">>, <<"8", "6", "4", "4", "3", "8">>,
             <<"3", "9", "1", "8", "8">>}

GuiFaults == {"none", "gate.decrypt"}
GuiVerifyFaults == {"none", "secret.decrypt", "gate.decrypt"}

\* the vault has the account "email", with the record "a", "p"
WithAccount(w, v) ==
    LET made == create_account_directory(w, v, "email", "none").w
    IN NoBuffers(encrypt_to_file(made, v, "email",
                                 [username |-> <<97>>, password |-> <<112>>], "none").w)

NoSelection == [selected |-> <<>>, previous |-> <<>>, locked |-> FALSE,
                verified_vault |-> <<>>, carried |-> None]

InitGui ==
    /\ \E tv \in GuiTotpVaults :
           LET filled == WithAccount(WithAccount(InitFs, VaultA), VaultASp)
               first == enable_totp(filled, VaultA, Secret1, "none").w
           IN fs = IF VaultASp \in tv
                   THEN enable_totp(first, VaultASp, Secret1, "none").w
                   ELSE first
    /\ now = Epoch0
    /\ op = "init"
    /\ arg = NoArg
    /\ ret = [ok |-> TRUE, val |-> FALSE, err |-> "none"]
    /\ steps = <<>>
    /\ pre = NoPre
    /\ procs = NoProcs
    /\ gui = NoApp
    /\ hist = NoSelection

\* the result of a frame
Frame(name, a, app, w, r, st) ==
    /\ op' = name
    /\ arg' = a
    /\ gui' = app
    /\ fs' = w
    /\ ret' = r
    /\ steps' = st
    /\ pre' = NoPre
    /\ UNCHANGED <<now, procs>>

NoResult == [ok |-> TRUE, val |-> FALSE, err |-> "none"]

\* a frame in which nothing is clicked
GuiUpdate ==
    LET app == update_begin(gui, fs, now)
    IN /\ app # gui
       /\ Frame("update", NoArg, app, fs, NoResult, <<>>)
       /\ UNCHANGED hist

\* a vault is clicked in the sidebar
GuiSelectVault ==
    \E v \in {x \in Vaults : fs.vaultDir[x]}, fault \in GuiFaults :
        LET app == update_begin(gui, fs, now)
            r == select_vault(app, fs, v, fault)
        IN /\ ~modal_active(app)
           /\ Frame("select_vault", [NoArg EXCEPT !.vault = v], r.app, r.w, NoResult, r.steps)
           /\ hist' = [selected |-> v, previous |-> hist.selected,
                       locked |-> r.app.totp_required,
                       verified_vault |-> <<>>, carried |-> app.totp_verified_until]

\* an account is clicked in the sidebar
GuiSelectAccount ==
    LET app == update_begin(gui, fs, now)
    IN \E a \in account_view(app), fault \in StoreDecryptFaults :
           LET r == select_account(app, fs, a, fault)
           IN /\ ~modal_active(app)
              /\ Frame("select_account", StoreArg(app.vault_name, a), r.app, r.r.w,
                       [ok |-> r.r.ok, val |-> r.r.val, err |-> r.r.err], r.r.steps)
              /\ UNCHANGED hist

\* a code is typed into the TOTP popup
GuiTypeCode ==
    \E code \in GuiCodes :
        LET app == update_begin(gui, fs, now)
        IN /\ app.show_totp_popup
           /\ app.totp_code_input # code
           /\ Frame("totp_type", [NoArg EXCEPT !.vault = app.vault_name, !.code = code],
                    [app EXCEPT !.totp_code_input = code], fs, NoResult, <<>>)
           /\ UNCHANGED hist

\* Verify is clicked in the TOTP popup
GuiVerify ==
    \E fault \in GuiVerifyFaults :
        LET app == update_begin(gui, fs, now)
            r == totp_popup(app, fs, now, "Verify", fault)
            v == verify_totp_code(fs, app.vault_name, app.totp_code_input, now, fault)
            warm == warm_up_gpg(fs, app.vault_name, fault)
        IN /\ app.show_totp_popup
           /\ Frame("totp_verify",
                    [NoArg EXCEPT !.vault = app.vault_name, !.code = app.totp_code_input],
                    r.app, r.w,
                    [ok |-> v.ok, val |-> v.val,
                     err |-> IF v.ok /\ v.val THEN warm.err ELSE v.err],
                    r.r.steps)
           /\ hist' = IF v.ok /\ v.val /\ warm.ok
                      THEN [hist EXCEPT !.locked = FALSE, !.verified_vault = app.vault_name]
                      ELSE hist

\* Cancel is clicked in the TOTP popup
GuiCancel ==
    LET app == update_begin(gui, fs, now)
        r == totp_popup(app, fs, now, "Cancel", "none")
    IN /\ app.show_totp_popup
       /\ Frame("totp_cancel", [NoArg EXCEPT !.vault = app.vault_name],
                r.app, r.w, NoResult, <<>>)
       /\ UNCHANGED hist

\* a minute passes
GuiTick ==
    /\ now < Epoch0 + MaxMinutes * 60
    /\ now' = now + 60
    /\ op' = "tick"
    /\ arg' = NoArg
    /\ ret' = NoResult
    /\ steps' = <<>>
    /\ pre' = NoPre
    /\ UNCHANGED <<fs, hist, procs, gui>>

NextGui ==
    \/ GuiUpdate
    \/ GuiSelectVault
    \/ GuiSelectAccount
    \/ GuiTypeCode
    \/ GuiVerify
    \/ GuiCancel
    \/ GuiTick

SpecGui == InitGui /\ [][NextGui]_vars

(***************************************************************************)
(* Properties of the front end                                             *)
(***************************************************************************)

\* C21: from the selection of a vault for which is_totp_required was true
\* until a code is verified and the warm-up succeeds, no account is
\* decrypted: no select_account runs; while that vault is selected the
\* TOTP popup is open; while the popup is open no click reaches the
\* sidebar; in the frame of the selection the account list is empty; and
\* Cancel deselects the vault and closes the popup.
C21_LockedUntilVerified ==
    [][/\ hist.locked =>
              /\ op' # "select_account"
              /\ IndexOf(steps', "data.decrypt") = 0
              /\ gui'.userpass = NoUserPass
       /\ (hist.locked /\ gui.vault_name # <<>>) =>
              (gui.show_totp_popup /\ gui.vault_name = hist.selected)
       /\ gui.show_totp_popup => op' \notin {"select_vault", "select_account"}
       /\ (op' = "select_vault" /\ gui'.totp_required) =>
              /\ gui'.show_totp_popup
              /\ gui'.account_names = {}
              /\ account_view(gui') = {}
              /\ gui'.account_name = ""
       /\ op' = "totp_cancel" => (gui'.vault_name = <<>> /\ ~gui'.show_totp_popup)
      ]_vars

\* Verify was clicked with a wrong code for a vault that needs a code, its
\* account names fetched, and the popup is open
C21_Witness ==
    /\ op = "totp_verify"
    /\ hist.locked
    /\ gui.totp_required
    /\ gui.show_totp_popup
    /\ gui.account_names # {}
    /\ ret.ok
    /\ ~ret.val

\* Cancel was clicked and has deselected the vault
C21_WitnessCancel ==
    /\ op = "totp_cancel"
    /\ hist.locked
    /\ gui.vault_name = <<>>
    /\ gui.account_names # {}

\* the vault is marked verified at the clock t
MarkedVerified(app, t) ==
    /\ app.totp_verified_until = Some(t + 120)
    /\ app.totp_code_input = <<>>
    /\ ~app.show_totp_popup

\* C22: a click on Verify in the TOTP popup marks the vault verified (the
\* deadline set to now + 120 s, the code input cleared, the popup closed)
\* exactly when verify_totp_code returned Ok(true) and the warm_up_gpg after
\* it succeeded; on Ok(false), on an error of the verification and on a
\* failed warm-up the popup stays open and the deadline and the code typed
\* are as they were.
C22_VerifiedOnlyAfterWarmUp ==
    [][op' = "totp_verify" =>
           LET unlocked == ret'.ok /\ ret'.val /\ ret'.err = "none"
           IN /\ unlocked <=> MarkedVerified(gui', now)
              /\ ~unlocked =>
                     /\ gui'.show_totp_popup
                     /\ gui'.totp_verified_until = gui.totp_verified_until
                     /\ gui'.totp_code_input = gui.totp_code_input
                     /\ gui'.vault_name = gui.vault_name
      ]_vars

\* the code was right, the warm-up succeeded and the vault is verified for
\* two minutes
C22_Witness ==
    /\ op = "totp_verify"
    /\ ret.ok
    /\ ret.val
    /\ ret.err = "none"
    /\ IndexOf(steps, "gate.decrypt") > 0
    /\ MarkedVerified(gui, now)

\* the code was right and the warm-up failed: the popup is open
C22_WitnessWarmUpFailed ==
    /\ op = "totp_verify"
    /\ ret.ok
    /\ ret.val
    /\ ret.err = "Failed to decrypt warm-up file"
    /\ gui.show_totp_popup
    /\ ~gui.totp_verified_until.some

\* the verification ended in an error: the popup is open
C22_WitnessError ==
    /\ op = "totp_verify"
    /\ ~ret.ok
    /\ gui.show_totp_popup
    /\ ~gui.totp_verified_until.some

\* C24: for a vault that needs a code, an account is decrypted only while
\* totp_verified_until holds a deadline that has not passed; after the 120
\* seconds no account is opened before a code is verified again.
C24_DecryptOnlyWhileVerified ==
    [][(op' = "select_account" /\ gui'.totp_required) =>
           (gui'.totp_verified_until.some /\ now < gui'.totp_verified_until.at)]_vars

\* the part of C24 about the deadline: every frame drops a deadline that
\* has passed, so that after a frame a deadline held lies ahead
C24_DeadlineDropped ==
    [][op' # "tick" =>
           (gui'.totp_verified_until.some => now < gui'.totp_verified_until.at)]_vars

\* an account of a vault that needs a code was decrypted after the deadline
\* had passed and been dropped, with no code verified again
C24_OpenedAfterDeadline ==
    /\ op = "select_account"
    /\ ret.ok
    /\ gui.totp_required
    /\ hist.verified_vault = gui.vault_name
    /\ ~gui.totp_verified_until.some
    /\ ~gui.show_totp_popup
    /\ gui.userpass = [username |-> <<97>>, password |-> <<112>>]

\* C25: a verification does not carry over to another vault.  select_vault
\* leaves totp_verified_until None and the code input empty, and a deadline
\* is held only when a code was verified for the vault clicked last, since
\* that click, and that vault is still the one selected.
C25_NoCarryOver ==
    /\ op = "select_vault" =>
           (gui.totp_verified_until = None /\ gui.totp_code_input = <<>>)
    /\ gui.totp_verified_until.some =>
           /\ hist.selected # <<>>
           /\ hist.verified_vault = hist.selected
           /\ gui.vault_name = hist.selected

\* a vault that needs a code was clicked while the deadline of another
\* vault, verified before, was held: the deadline is gone and the popup is
\* open
C25_Witness ==
    /\ op = "select_vault"
    /\ hist.carried.some
    /\ hist.previous # <<>>
    /\ hist.previous # hist.selected
    /\ gui.totp_required
    /\ gui.show_totp_popup
    /\ gui.totp_verified_until = None

=============================================================================
